---- MODULE Spec2Model ----
(***************************************************************************)
(* Model of the transcription pipeline of small_transcriptor:              *)
(*   chunker -> chunk scheduler (worker pool, shared lazily loaded model)  *)
(*   -> pause-based speaker segmentation -> utterance grouper,             *)
(* and of the two HTTP services in front of it (src/transcriptor/app.py,   *)
(* src/app.py).                                                            *)
(*                                                                         *)
(* Time is counted in ticks of 0.1 s, so that every constant of the source *)
(* (1.5 s, 2.0 s, 3.0 s) is an integer number of ticks.  Audio durations   *)
(* and chunk durations are whole seconds (Seconds(k)).                     *)
(***************************************************************************)
EXTENDS Integers, Sequences, FiniteSets, TLC

VARIABLES
    \* ---- inputs of one job (transcribe_mp3_with_speakers) ----
    total_duration,      \* duration of the decoded audio, ticks
    chunk_duration,      \* chunk_duration argument, ticks
    use_multithreading,  \* use_multithreading argument
    max_workers,         \* self.max_workers
    num_speakers,        \* num_speakers argument
    model_available,     \* environment: the model asset can be fetched and loaded
    \* ---- main thread ----
    pc,                  \* position of the thread running the job
    chunk_start,         \* loop variable of split_audio_into_chunks
    chunks,              \* list of (path, start, end) built by the chunker
    split_overrun,       \* the iterations of the chunker that are not followed are odd in number
    all_results,         \* all_results of transcribe_audio / results of the single-thread path
    ret,                 \* value returned by transcribe_mp3_with_speakers
    caught,              \* the exception e caught by the job's except clauses
    \* ---- file system ----
    files,               \* temporary chunk files that exist (by path = chunk index)
    wav_exists,          \* the temporary WAV of convert_mp3_to_wav exists
    \* ---- worker pool ----
    pools,               \* number of ThreadPoolExecutor objects constructed
    fut,                 \* per chunk: state of the task submitted for it
    fres,                \* per chunk: value the task returned
    engine,              \* per chunk: what the recognition engine did (history)
    rec,                 \* per chunk: the recognizer objects its transcription used
    \* ---- recognition adapter ----
    model,               \* self.model: "None" or "Loaded"
    model_lock,          \* holder of self.model_lock: 0 free, i worker i, -1 main thread
    loads,               \* number of times self.model was assigned by _load_model
    \* ---- pause-based segmentation applied to a drawn token stream ----
    seg_in,              \* transcription_results handed to the segmenter
    seg_n,               \* num_speakers handed to the segmenter
    seg_out,             \* what the segmenter returned, and which variant ran
    \* ---- advanced_speaker_segmentation applied to a drawn token stream ----
    adv_in,              \* transcription_results handed to the diarization segmenter
    adv_turns,           \* the turns itertracks yields, in iteration order
    speaker_pipeline,    \* self.speaker_pipeline: "None" or "Pipeline"
    adv_pc,              \* position inside advanced_speaker_segmentation
    adv_segments,        \* its local list segments
    adv_err,             \* what raised inside its try block, "none" if nothing did
    adv_out,             \* what it returned
    adv_call,            \* how the labelling is entered: directly, or by a job, and the
                         \* arguments is_advanced_segmentation and num_speakers
    is_advanced_segmentation,  \* self.is_advanced_segmentation
    adv_strategy,        \* the strategy that labelled the words: "none", "pause", "diarization"
    \* ---- the utterance grouper applied to a drawn list of labelled words ----
    grp_in,              \* segments handed to group_segments_by_speaker
    grp_out,             \* what it returned, and which variant ran
    \* ---- the service of src/transcriptor/app.py ----
    api_cpu_count,       \* multiprocessing.cpu_count() of the host
    api_max_workers,     \* transcriptor.max_workers of the global transcriptor
    api_log,             \* the /transcribe requests served so far, with their responses
    \* ---- the job-tracking service of src/app.py, for one job id ----
    trk_jobs,            \* jobs.get(job_id): the dict of the job, or NoJob
    trk_files,           \* which of the upload, the text result and the JSON result exist
    trk_pc,              \* position of the background task process_transcription
    trk_transcription,   \* its local variable transcription
    trk_raised,          \* an exception is propagating out of process_transcription
    del_pc,              \* position of a running delete_job handler
    del_job,             \* its local job: the dict now in the map, or one replaced since
    trk_deletes,         \* number of DELETE requests received
    trk_deleted,         \* a DELETE request has removed the job (history)
    trk_statuses,        \* the values the job's status has taken, in order (history)
    trk_served           \* the statuses under which a result endpoint served a file (history)

jobVars == <<total_duration, chunk_duration, use_multithreading, max_workers,
          num_speakers, model_available, pc, chunk_start, chunks, all_results,
          ret, caught, files, wav_exists, pools, fut, fres, engine, rec, model,
          model_lock, loads, split_overrun>>

segVars == <<seg_in, seg_n, seg_out>>

advVars == <<adv_in, adv_turns, speaker_pipeline, adv_pc, adv_segments, adv_err,
             adv_out, adv_call, is_advanced_segmentation, adv_strategy>>

grpVars == <<grp_in, grp_out>>

apiVars == <<api_cpu_count, api_max_workers, api_log>>

trkVars == <<trk_jobs, trk_files, trk_pc, trk_transcription, trk_raised, del_pc, del_job,
             trk_deletes, trk_deleted, trk_statuses, trk_served>>

\* the variables of the two HTTP services
svcVars == <<apiVars, trkVars>>

\* the variables of the components that are exercised on their own
aloneVars == <<segVars, advVars, grpVars, svcVars>>

vars == <<jobVars, aloneVars>>

inputVars == <<total_duration, chunk_duration, use_multithreading, max_workers,
               num_speakers, model_available>>
poolVars  == <<pools, fut, fres, engine>>
modelVars == <<model, model_lock, loads>>

(***************************************************************************)
(* Bounds of the model.                                                    *)
(***************************************************************************)
MaxT        == 6    \* longest audio, seconds
MaxD        == 3    \* longest chunk duration, seconds
MaxChunks   == 3    \* most chunks a modelled job is split into
MaxWorkers  == 2    \* largest max_workers
MaxSpeakers == 2    \* largest num_speakers

Seconds(k) == k * 10

Min(a, b) == IF a <= b THEN a ELSE b

\* ceil(a / b) for a >= 0, b > 0
CeilDiv(a, b) == (a + b - 1) \div b

(***************************************************************************)
(* Data.  A word token is [word, start, end]; the text of a word is a      *)
(* sequence of characters.  A result record of the engine is a record     *)
(* with a "text" field and, when words were recognised, a "result" field.  *)
(***************************************************************************)
ChunkLetter(i) == <<"z", "a", "b", "c", "d", "e", "f", "g", "h">>[i + 1]
Digit(k)       == <<"0", "1", "2", "3", "4", "5", "6", "7", "8", "9">>[k + 1]

Word(i, k, s, e) == [word |-> <<ChunkLetter(i), Digit(k)>>, start |-> s, end |-> e]

\* The engine's records for a chunk of length len, with chunk-local times.
\*   "speech": a Result() record and the FinalResult() record, one word each
\*   "tail"  : only the FinalResult() record, one word at the end of the chunk
\*   "head"  : only the FinalResult() record, one short word at the start
\*   "silent": only the FinalResult() record, without a 'result' key
EngineRecords(i, len, outcome) ==
    CASE outcome = "speech" /\ len >= Seconds(2) ->
            << [result |-> <<Word(i, 1, 0, Seconds(1))>>, text |-> "w"],
               [result |-> <<Word(i, 2, len - Seconds(1), len)>>, text |-> "w"] >>
      [] outcome = "head" ->
            << [result |-> <<Word(i, 1, 0, Seconds(1) \div 2)>>, text |-> "w"] >>
      [] outcome = "silent" -> << [text |-> ""] >>
      [] OTHER -> << [result |-> <<Word(i, 1, len - Seconds(1), len)>>, text |-> "w"] >>

EngineOutcomes == {"speech", "tail", "head", "silent", "raise"}

HasResult(r) == "result" \in DOMAIN r


(***************************************************************************)
(* transcribe_chunk: shift of the chunk-local timestamps to global time.   *)
(***************************************************************************)
\* mutant of ShiftWord: only the start is shifted
ShiftWord_StartOnly(w, offset) == [w EXCEPT !.start = @ + offset]

ShiftWord(w, offset) == [w EXCEPT !.start = @ + offset, !.end = @ + offset]

ShiftRecord(r, offset) ==
    IF HasResult(r)
    THEN [r EXCEPT !.result = [k \in DOMAIN r.result |-> ShiftWord(r.result[k], offset)]]
    ELSE r

ShiftResults(results, offset) ==
    [k \in DOMAIN results |-> ShiftRecord(results[k], offset)]

(***************************************************************************)
(* Pause-based speaker segmentation.                                       *)
(***************************************************************************)
speaker_change_threshold == 20   \* 2.0 s, multithreaded variant
pause_threshold_single   == 15   \* 1.5 s, single-threaded variant

\* f"SPEAKER_{current_speaker:02d}"
SpeakerLabel(n) == "SPEAKER_" \o (IF n < 10 THEN "0" ELSE "") \o ToString(n)

RECURSIVE WordsOf(_)
\* the words of the records that carry a 'result' key, in order
WordsOf(results) ==
    IF results = <<>> THEN <<>>
    ELSE (IF HasResult(Head(results)) THEN Head(results).result ELSE <<>>)
         \o WordsOf(Tail(results))

SegInit == [segments |-> <<>>, current_speaker |-> 0, last_end_time |-> 0]

\* mutant of SegStart: a call goes on from the speaker and the end time the
\* call before it has reached
SegStart_Carried(previous) == [previous EXCEPT !.segments = <<>>]

\* the locals at the start of a call that follows a call which left them as
\* previous: segments = [], current_speaker = 0, last_end_time = 0
SegStart(previous) == SegInit

\* mutant of PauseExceeds: a pause equal to the threshold changes the speaker
PauseExceeds_AtLeast(start, last_end_time, threshold) ==
    start - last_end_time >= threshold

\* the condition under which the speaker changes at a word
PauseExceeds(start, last_end_time, threshold) == start - last_end_time > threshold

\* mutant of NextSpeaker: the index is not taken modulo the number of speakers
NextSpeaker_NoWrap(current_speaker, n) == current_speaker + 1

\* current_speaker = (current_speaker + 1) % num_speakers
NextSpeaker(current_speaker, n) == (current_speaker + 1) % n

\* one iteration of the inner loop of simple_speaker_segmentation
SegWord(st, w, n, threshold) ==
    LET speaker == IF PauseExceeds(w.start, st.last_end_time, threshold)
                   THEN NextSpeaker(st.current_speaker, n)
                   ELSE st.current_speaker
    IN [segments |-> Append(st.segments,
                            [start |-> w.start, end |-> w.end, text |-> w.word,
                             speaker |-> SpeakerLabel(speaker)]),
        current_speaker |-> speaker,
        last_end_time |-> w.end]

RECURSIVE SegLoop(_, _, _, _)
SegLoop(st, words, n, threshold) ==
    IF words = <<>> THEN st
    ELSE SegLoop(SegWord(st, Head(words), n, threshold), Tail(words), n, threshold)

\* src/transcriptor/transcriptor.py
simple_speaker_segmentation(results, n) ==
    SegLoop(SegInit, WordsOf(results), n, speaker_change_threshold).segments

\* src/transcriptor.py
simple_speaker_segmentation_single(results, n) ==
    SegLoop(SegInit, WordsOf(results), n, pause_threshold_single).segments

(***************************************************************************)
(* Diarization-based speaker segmentation (src/transcriptor.py).  A turn   *)
(* of the diarization is [start, end, speaker].                            *)
(***************************************************************************)
default_num_speakers == 4   \* num_speakers of simple_speaker_segmentation when omitted

\* mutant of TurnContains: the end of a turn does not belong to it
TurnContains_HalfOpen(turn, start) == turn.start <= start /\ start < turn.end

\* turn.start <= start <= turn.end
TurnContains(turn, start) == turn.start <= start /\ start <= turn.end

RECURSIVE SpeakerAt(_, _, _)
\* the loop over itertracks from turn j on: the speaker of the first turn that
\* contains start (break), "SPEAKER_00" when the loop ends without one
SpeakerAt(turns, j, start) ==
    IF j > Len(turns) THEN "SPEAKER_00"
    ELSE IF TurnContains(turns[j], start) THEN turns[j].speaker
    ELSE SpeakerAt(turns, j + 1, start)

\* mutant of AdvWord: the labelled word takes the bounds of the turn that
\* labels it instead of its own
AdvWord_TurnBounds(segments, w, turns) ==
    LET hits == {j \in DOMAIN turns : TurnContains(turns[j], w.start)}
        turn == IF hits = {} THEN [start |-> w.start, end |-> w.end]
                ELSE turns[CHOOSE j \in hits : \A i \in hits : j <= i]
    IN Append(segments, [start |-> turn.start, end |-> turn.end, text |-> w.word,
                         speaker |-> SpeakerAt(turns, 1, w.start)])

\* one iteration of the loop over the words: segments.append({...})
AdvWord(segments, w, turns) ==
    Append(segments, [start |-> w.start, end |-> w.end, text |-> w.word,
                      speaker |-> SpeakerAt(turns, 1, w.start)])

\* mutant of AdvFallback: the words labelled before the exception keep their
\* labels, the pause heuristic labels the others
AdvFallback_KeepLabelled(results, segments) ==
    LET all == simple_speaker_segmentation_single(results, default_num_speakers)
    IN segments \o SubSeq(all, Len(segments) + 1, Len(all))

\* return self.simple_speaker_segmentation(transcription_results), reached with
\* the local list segments holding what was labelled so far
AdvFallback(results, segments) ==
    simple_speaker_segmentation_single(results, default_num_speakers)

(***************************************************************************)
(* Utterance grouper.  current_group is a sequence of length 0 (None) or 1.*)
(* The dicts of the input list are objects: `segments` is the list as it   *)
(* is now, and `shared` is the position of the input dict that             *)
(* current_group is the same object as, 0 when it is an object of its own. *)
(***************************************************************************)
time_threshold_default        == 30   \* 3.0 s, multithreaded variant
time_threshold_default_single == 20   \* 2.0 s, single-threaded variant

GroupInit(segments) ==
    [grouped |-> <<>>, current_group |-> <<>>, shared |-> 0, segments |-> segments]

\* mutant of Opened: current_group = segment, the input dict itself
Opened_Same(k) == k

\* current_group = segment.copy(): a new dict, shared with no element of the
\* input list
Opened(k) == 0

\* mutant of Merges: the gap is not looked at
Merges_AnyGap(cur, segment, time_threshold) == cur.speaker = segment.speaker

\* mutant of Merges: a gap equal to the threshold still merges
Merges_AtMost(cur, segment, time_threshold) ==
    cur.speaker = segment.speaker /\ segment.start - cur.end <= time_threshold

\* the condition of the elif: same speaker, and the segment starts less than
\* time_threshold after the end of the open group
Merges(cur, segment, time_threshold) ==
    cur.speaker = segment.speaker /\ segment.start - cur.end < time_threshold

\* mutant of GroupEnd: the open group keeps the end of its first word
GroupEnd_Kept(cur, segment) == cur.end

\* current_group['end'] = segment['end']
GroupEnd(cur, segment) == segment.end

\* mutant of Emit: the closed group is put in front of the list
Emit_Front(grouped, cur) == <<cur>> \o grouped

\* grouped.append(current_group)
Emit(grouped, cur) == Append(grouped, cur)

\* one iteration of the loop of group_segments_by_speaker, for the dict at
\* position k of the input list
GroupSegment(st, k, time_threshold) ==
    LET segment == st.segments[k] IN
    IF st.current_group = <<>>
    THEN [st EXCEPT !.current_group = <<segment>>, !.shared = Opened(k)]
    ELSE LET cur == st.current_group[1] IN
         IF Merges(cur, segment, time_threshold)
         THEN LET merged == [cur EXCEPT !.text = @ \o <<" ">> \o segment.text,
                                        !.end = GroupEnd(cur, segment)]
              IN [st EXCEPT !.current_group = <<merged>>,
                            !.segments = IF st.shared = 0 THEN @
                                         ELSE [@ EXCEPT ![st.shared] = merged]]
         ELSE [st EXCEPT !.grouped = Emit(st.grouped, cur),
                         !.current_group = <<segment>>,
                         !.shared = Opened(k)]

RECURSIVE GroupLoop(_, _, _)
\* for segment in segments, from position k on
GroupLoop(st, k, time_threshold) ==
    IF k > Len(st.segments) THEN st
    ELSE GroupLoop(GroupSegment(st, k, time_threshold), k + 1, time_threshold)

\* mutant of Flush: the group still open at the end of the input is forgotten
Flush_Dropped(st) == st.grouped

\* if current_group: grouped.append(current_group)
Flush(st) ==
    IF st.current_group # <<>> THEN Emit(st.grouped, st.current_group[1]) ELSE st.grouped

\* src/transcriptor/transcriptor.py
group_segments_by_speaker(segments, time_threshold) ==
    IF segments = <<>> THEN <<>>
    ELSE Flush(GroupLoop(GroupInit(segments), 1, time_threshold))

\* src/transcriptor.py: no test for an empty list
group_segments_by_speaker_single(segments, time_threshold) ==
    Flush(GroupLoop(GroupInit(segments), 1, time_threshold))

\* the list that was handed to group_segments_by_speaker, after the call
SegmentsAfterGrouping(segments, time_threshold) ==
    GroupLoop(GroupInit(segments), 1, time_threshold).segments


(***************************************************************************)
(* The job: transcribe_mp3_with_speakers of the multithreaded variant.     *)
(***************************************************************************)
NoRet   == [kind |-> "pending"]
RetNone == [kind |-> "None"]
RetList(v) == [kind |-> "list", value |-> v]

ChunkIds == 1..Len(chunks)

\* Chunk durations a request may carry: the /transcribe endpoint passes any
\* number through, so zero and a negative duration are among them.
ChunkDurations == {Seconds(k) : k \in (0 - 1)..MaxD}

\* The inputs of the modelled jobs: those split into at most MaxChunks chunks.
JobInputs ==
    {in \in [T : {Seconds(k) : k \in 0..MaxT}, d : ChunkDurations] :
        in.d > 0 => CeilDiv(in.T, in.d) <= MaxChunks}

\* no token stream is being segmented on its own
SegIdle ==
    /\ seg_in = <<>>
    /\ seg_n = 1
    /\ seg_out = [variant |-> "none"]

\* advanced_speaker_segmentation is not being run on its own
AdvIdle ==
    /\ adv_in = <<>>
    /\ adv_turns = <<>>
    /\ speaker_pipeline = "None"
    /\ adv_pc = "idle"
    /\ adv_segments = <<>>
    /\ adv_err = "none"
    /\ adv_out = NoRet
    /\ adv_call = [entry |-> "none"]
    /\ is_advanced_segmentation = FALSE
    /\ adv_strategy = "none"

\* no list of labelled words is being grouped on its own
GrpIdle ==
    /\ grp_in = <<>>
    /\ grp_out = [variant |-> "none"]

\* the service of src/transcriptor/app.py is not running
ApiIdle ==
    /\ api_cpu_count = 1
    /\ api_max_workers = 1
    /\ api_log = <<>>

\* job_id not in jobs
NoJob == [status |-> "absent"]

\* the job-tracking service of src/app.py is not running
TrkIdle ==
    /\ trk_jobs = NoJob
    /\ trk_files = {}
    /\ trk_pc = "idle"
    /\ trk_transcription = NoRet
    /\ trk_raised = FALSE
    /\ del_pc = "idle"
    /\ del_job = "none"
    /\ trk_deletes = 0
    /\ trk_deleted = FALSE
    /\ trk_statuses = <<>>
    /\ trk_served = {}

SvcIdle == ApiIdle /\ TrkIdle

Init ==
    /\ \E in \in JobInputs : total_duration = in.T /\ chunk_duration = in.d
    /\ use_multithreading \in BOOLEAN
    /\ max_workers \in 0..MaxWorkers
    /\ num_speakers \in {1, MaxSpeakers}    \* one speaker, or several
    /\ model_available \in BOOLEAN
    /\ pc = "convert"
    /\ chunk_start = 0
    /\ chunks = <<>>
    /\ split_overrun = FALSE
    /\ all_results = <<>>
    /\ ret = NoRet
    /\ caught = "none"
    /\ files = {}
    /\ wav_exists = FALSE
    /\ pools = 0
    /\ fut = <<>>
    /\ fres = <<>>
    /\ engine = [i \in 0..MaxChunks + 1 |-> "idle"]
    /\ rec = [i \in 0..MaxChunks + 1 |-> {}]
    /\ model = "None"
    /\ model_lock = 0
    /\ loads = 0
    /\ SegIdle
    /\ AdvIdle
    /\ GrpIdle
    /\ SvcIdle

\* convert_mp3_to_wav: the temporary file is created before the try block; it
\* holds the audio when the conversion succeeded, and the except clause
\* unlinks it when the conversion raised
WavAfterConvert(ok) == ok

\* mutant of WavAfterFinally: the finally block leaves the file
WavAfterFinally_Kept(exists) == exists

\* finally: if os.path.exists(wav_path): os.unlink(wav_path)
WavAfterFinally(exists) == FALSE

\* convert_mp3_to_wav and the test of its result
Convert ==
    /\ pc = "convert"
    /\ \E ok \in BOOLEAN :
          IF ok
          THEN /\ wav_exists' = WavAfterConvert(ok)
               /\ pc' = "transcribe_audio"
               /\ ret' = ret
               /\ caught' = caught
          ELSE /\ wav_exists' = WavAfterConvert(ok)
               /\ pc' = "returned"
               /\ ret' = RetNone
               /\ caught' = "CouldntDecodeError"
    /\ UNCHANGED <<aloneVars, split_overrun, rec, inputVars, chunk_start, chunks, all_results, files, poolVars, modelVars>>

\* transcribe_audio, the test that disables concurrency
SingleThreaded == ~use_multithreading \/ max_workers = 1

EnterSingleThread ==
    /\ pc = "transcribe_audio"
    /\ SingleThreaded
    /\ pc' = "single_load"
    /\ UNCHANGED <<aloneVars, split_overrun, rec, caught, inputVars, chunk_start, chunks, all_results, ret, files,
                   wav_exists, poolVars, modelVars>>

\* mutant of AfterOpen: the chunker goes on when the WAV could not be read
AfterOpen_GoOn(ok) == "split"

\* where control goes from wave.open: into the loop of the chunker, or, the
\* chunker and transcribe_audio having no handler, to the except clause of
\* transcribe_mp3_with_speakers
AfterOpen(ok) == IF ok THEN "split" ELSE "except"

\* split_audio_into_chunks, up to the loop: wave.open may raise
OpenWave ==
    /\ pc = "transcribe_audio"
    /\ ~SingleThreaded
    /\ \E ok \in BOOLEAN :
          /\ pc' = AfterOpen(ok)
          /\ caught' = IF ok THEN caught ELSE "wave.Error"
    /\ chunk_start' = 0
    /\ chunks' = <<>>
    /\ UNCHANGED <<aloneVars, split_overrun, rec, inputVars, all_results, ret, files, wav_exists, poolVars, modelVars>>

\* the loop condition of split_audio_into_chunks
MoreChunks(start, total) == start < total

\* mutants of ChunkEnd: the end of the audio is not taken into account;
\* the end is taken one second early
ChunkEnd_NoMin(start, duration, total) == start + duration
ChunkEnd_Early(start, duration, total) == Min(start + duration - Seconds(1), total)

\* mutant of ChunkEnd: the chunk runs to the end of the audio
ChunkEnd_ToEnd(start, duration, total) == total

\* chunk_end = min(chunk_start + chunk_duration, total_duration)
ChunkEnd(start, duration, total) == Min(start + duration, total)

\* one iteration of the loop of split_audio_into_chunks; the chunks are
\* followed for MaxChunks + 1 iterations
SplitStep ==
    /\ pc = "split"
    /\ MoreChunks(chunk_start, total_duration)
    /\ Len(chunks) < MaxChunks + 1
    /\ LET chunk_end == ChunkEnd(chunk_start, chunk_duration, total_duration)
           path == Len(chunks) + 1
       IN /\ files' = files \cup {path}
          /\ chunks' = Append(chunks, [path |-> path, start |-> chunk_start,
                                       end |-> chunk_end])
          /\ chunk_start' = chunk_end
    /\ UNCHANGED <<aloneVars, split_overrun, rec, caught, inputVars, pc, all_results, ret, wav_exists, poolVars, modelVars>>

\* an iteration of the loop after the first MaxChunks + 1: the loop goes on,
\* and of the chunks it makes only their number modulo 2 is followed
SplitOn ==
    /\ pc = "split"
    /\ MoreChunks(chunk_start, total_duration)
    /\ Len(chunks) = MaxChunks + 1
    /\ split_overrun' = ~split_overrun
    /\ UNCHANGED <<aloneVars, rec, caught, inputVars, pc, chunk_start, chunks, all_results, ret,
                   files, wav_exists, poolVars, modelVars>>

\* split_audio_into_chunks returns
SplitReturn ==
    /\ pc = "split"
    /\ ~MoreChunks(chunk_start, total_duration)
    /\ pc' = "dispatch"
    /\ UNCHANGED <<aloneVars, split_overrun, rec, caught, inputVars, chunk_start, chunks, all_results, ret, files,
                   wav_exists, poolVars, modelVars>>

\* transcribe_audio: the test for the short file
\* mutant of ShortCircuit: the test is for an empty list
ShortCircuit_Empty(n) == n = 0

ShortCircuit(n) == n = 1

\* transcribe_audio after chunking: short circuit, or pool creation and submission
Dispatch ==
    /\ pc = "dispatch"
    /\ IF ShortCircuit(Len(chunks))
       THEN /\ pc' = "single_load"
            /\ UNCHANGED <<poolVars, caught>>
       ELSE IF max_workers <= 0
       THEN \* ThreadPoolExecutor raises ValueError
            /\ pc' = "except"
            /\ caught' = "ValueError"
            /\ UNCHANGED poolVars
       ELSE /\ pools' = pools + 1
            /\ fut' = [i \in ChunkIds |-> "pending"]
            /\ fres' = [i \in ChunkIds |-> <<>>]
            /\ engine' = engine
            /\ pc' = "collect"
            /\ caught' = caught
    /\ UNCHANGED <<aloneVars, split_overrun, rec, inputVars, chunk_start, chunks, all_results, ret, files,
                   wav_exists, modelVars>>


(***************************************************************************)
(* The worker pool: one task per chunk, running transcribe_chunk.          *)
(*   pending -> load -> locked -> recognize -> cleanup -> done -> collected*)
(***************************************************************************)
Running == {i \in DOMAIN fut : fut[i] \in {"load", "locked", "recognize", "cleanup"}}

\* mutant of HasIdleThread: the pool starts a thread for every task
HasIdleThread_Always(running, workers) == TRUE

\* ThreadPoolExecutor(max_workers=workers): a task is taken from the queue
\* only by one of the workers threads of the pool that is not running a task
HasIdleThread(running, workers) == Cardinality(running) < workers

\* A pool thread takes the next task of the queue (first in, first out).
StartTask(i) ==
    /\ pc = "collect"
    /\ fut[i] = "pending"
    /\ \A j \in 1..(i - 1) : fut[j] # "pending"
    /\ HasIdleThread(Running, max_workers)
    /\ fut' = [fut EXCEPT ![i] = "load"]
    /\ UNCHANGED <<aloneVars, split_overrun, rec, caught, inputVars, pc, chunk_start, chunks, all_results, ret, files,
                   wav_exists, pools, fres, engine, modelVars>>

\* _load_model: with self.model_lock
AcquireLock(i) ==
    /\ fut[i] = "load"
    /\ model_lock = 0
    /\ model_lock' = i
    /\ fut' = [fut EXCEPT ![i] = "locked"]
    /\ UNCHANGED <<aloneVars, split_overrun, rec, caught, inputVars, pc, chunk_start, chunks, all_results, ret, files,
                   wav_exists, pools, fres, engine, model, loads>>

\* mutant of NeedsLoad: the model is loaded without the test
NeedsLoad_Always(m) == TRUE

\* _load_model: the test under the lock
NeedsLoad(m) == m = "None"

\* _load_model under the lock, and the release of the lock.  When the model
\* cannot be fetched or loaded the exception leaves the with block (the lock
\* is released) and is caught by transcribe_chunk, which returns [].
LoadModel(i) ==
    /\ fut[i] = "locked"
    /\ model_lock = i
    /\ model_lock' = 0
    /\ IF NeedsLoad(model)
       THEN IF model_available
            THEN /\ model' = "Loaded"
                 /\ loads' = loads + 1
                 /\ fut' = [fut EXCEPT ![i] = "recognize"]
                 /\ UNCHANGED <<fres, engine>>
            ELSE /\ fut' = [fut EXCEPT ![i] = "cleanup"]
                 /\ fres' = [fres EXCEPT ![i] = <<>>]
                 /\ engine' = [engine EXCEPT ![i] = "noload"]
                 /\ UNCHANGED <<model, loads>>
       ELSE /\ fut' = [fut EXCEPT ![i] = "recognize"]
            /\ UNCHANGED <<model, loads, fres, engine>>
    /\ UNCHANGED <<aloneVars, split_overrun, rec, caught, inputVars, pc, chunk_start, chunks, all_results, ret, files,
                   wav_exists, pools>>

\* what the engine may do on audio of the given length
\* (on audio shorter than two seconds "speech" and "tail" are the same records)
EngineMay(len) ==
    IF len >= Seconds(2) THEN EngineOutcomes
    ELSE IF len >= Seconds(1) THEN EngineOutcomes \ {"speech"}
    ELSE {"silent", "raise"}

\* mutant of ChunkResults: the records read before the exception are returned
ChunkResults_Partial(c, outcome) ==
    ShiftResults(EngineRecords(c.path, c.end - c.start, outcome), c.start)

\* the value transcribe_chunk returns for chunk c when the engine did `outcome`
ChunkResults(c, outcome) ==
    IF outcome = "raise"
    THEN <<>>
    ELSE ShiftResults(EngineRecords(c.path, c.end - c.start, outcome), c.start)

\* mutant of ChunkFileOf: every call works on the file of the first chunk
ChunkFileOf_First(i) == chunks[1].path

\* chunk_path, start_offset, end_offset = chunk_info: the file that the call
\* of transcribe_chunk for chunk i opens, and unlinks in its finally block
ChunkFileOf(i) == chunks[i].path

\* mutant of NewRecognizer: one recognizer is kept and used by every call
NewRecognizer_Kept(i) == "rec"

\* rec = KaldiRecognizer(self.model, wf.getframerate()): the object this
\* constructor call returns to the transcription of chunk i (0: of the whole
\* audio), bound to a local variable
NewRecognizer(i) == <<"rec", i>>

\* transcribe_chunk: open the chunk file, recognise, shift the timestamps
Recognize(i) ==
    /\ fut[i] = "recognize"
    /\ \E o \in EngineMay(chunks[i].end - chunks[i].start) :
          LET outcome == IF ChunkFileOf(i) \in files THEN o ELSE "raise"
          IN /\ engine' = [engine EXCEPT ![i] = outcome]
             /\ fres' = [fres EXCEPT ![i] = ChunkResults(chunks[i], outcome)]
             /\ rec' = [rec EXCEPT ![i] =
                           IF ChunkFileOf(i) \in files THEN {NewRecognizer(i)} ELSE {}]
    /\ fut' = [fut EXCEPT ![i] = "cleanup"]
    /\ UNCHANGED <<aloneVars, split_overrun, caught, inputVars, pc, chunk_start, chunks, all_results, ret, files,
                   wav_exists, pools, modelVars>>

\* transcribe_chunk: the finally block, after which the future is done
Cleanup(i) ==
    /\ fut[i] = "cleanup"
    /\ files' = files \ {ChunkFileOf(i)}
    /\ fut' = [fut EXCEPT ![i] = "done"]
    /\ UNCHANGED <<aloneVars, split_overrun, rec, caught, inputVars, pc, chunk_start, chunks, all_results, ret,
                   wav_exists, pools, fres, engine, modelVars>>

\* mutant of Extend: the list is replaced by the records of the chunk
Extend_Replaced(results, chunk_results, i) == chunk_results

\* all_results.extend(chunk_results)
Extend(results, chunk_results, i) == results \o chunk_results

\* transcribe_audio: one iteration of the loop over as_completed
Collect(i) ==
    /\ pc = "collect"
    /\ fut[i] = "done"
    /\ all_results' = Extend(all_results, fres[i], i)
    /\ fut' = [fut EXCEPT ![i] = "collected"]
    /\ UNCHANGED <<aloneVars, split_overrun, rec, caught, inputVars, pc, chunk_start, chunks, ret, files, wav_exists,
                   pools, fres, engine, modelVars>>

\* mutant of AsCompletedExhausted: the loop is left after the first future
AsCompletedExhausted_First(f) == \E i \in DOMAIN f : f[i] = "collected"

\* the loop over as_completed(future_to_chunk) ends when it has yielded every
\* future, and it yields a future only when the future is done
AsCompletedExhausted(f) == \A i \in DOMAIN f : f[i] = "collected"

\* transcribe_audio: as_completed is exhausted, the pool is shut down
PoolExit ==
    /\ pc = "collect"
    /\ AsCompletedExhausted(fut)
    /\ pc' = "segment"
    /\ UNCHANGED <<aloneVars, split_overrun, rec, caught, inputVars, chunk_start, chunks, all_results, ret, files,
                   wav_exists, poolVars, modelVars>>

(***************************************************************************)
(* _transcribe_audio_single_thread, run by the thread of the job.          *)
(***************************************************************************)
SingleLoad ==
    /\ pc = "single_load"
    /\ model_lock = 0
    /\ IF NeedsLoad(model)
       THEN IF model_available
            THEN /\ model' = "Loaded"
                 /\ loads' = loads + 1
                 /\ pc' = "single_recognize"
                 /\ UNCHANGED <<engine, caught>>
            ELSE /\ pc' = "except"
                 /\ engine' = [engine EXCEPT ![0] = "noload"]
                 /\ caught' = "ModelError"
                 /\ UNCHANGED <<model, loads>>
       ELSE /\ pc' = "single_recognize"
            /\ UNCHANGED <<model, loads, engine, caught>>
    /\ UNCHANGED <<aloneVars, split_overrun, rec, inputVars, chunk_start, chunks, all_results, ret, files,
                   wav_exists, pools, fut, fres, model_lock>>

SingleRecognize ==
    /\ pc = "single_recognize"
    /\ rec' = [rec EXCEPT ![0] = {NewRecognizer(0)}]
    /\ \E o \in EngineMay(total_duration) :
          /\ engine' = [engine EXCEPT ![0] = o]
          /\ IF o = "raise"
             THEN /\ pc' = "except"
                  /\ all_results' = all_results
                  /\ caught' = "RecognizerError"
             ELSE /\ pc' = "segment"
                  /\ all_results' = EngineRecords(0, total_duration, o)
                  /\ caught' = caught
    /\ UNCHANGED <<aloneVars, split_overrun, inputVars, chunk_start, chunks, ret, files, wav_exists,
                   pools, fut, fres, modelVars>>

(***************************************************************************)
(* transcribe_mp3_with_speakers: segmentation, grouping, return.           *)
(***************************************************************************)
JobValue(results, n) ==
    group_segments_by_speaker(simple_speaker_segmentation(results, n),
                              time_threshold_default)

Finish ==
    /\ pc = "segment"
    /\ ret' = RetList(JobValue(all_results, num_speakers))
    /\ pc' = "finally"
    /\ UNCHANGED <<aloneVars, split_overrun, rec, caught, inputVars, chunk_start, chunks, all_results, files,
                   wav_exists, poolVars, modelVars>>

\* except Exception: return None
Except ==
    /\ pc = "except"
    /\ ret' = RetNone
    /\ pc' = "finally"
    /\ UNCHANGED <<aloneVars, split_overrun, rec, caught, inputVars, chunk_start, chunks, all_results, files,
                   wav_exists, poolVars, modelVars>>

\* finally: the temporary WAV is removed
Finally ==
    /\ pc = "finally"
    /\ wav_exists' = WavAfterFinally(wav_exists)
    /\ pc' = "returned"
    /\ UNCHANGED <<aloneVars, split_overrun, rec, caught, inputVars, chunk_start, chunks, all_results, ret, files,
                   poolVars, modelVars>>

Next ==
    \/ Convert
    \/ EnterSingleThread
    \/ OpenWave
    \/ SplitStep
    \/ SplitOn
    \/ SplitReturn
    \/ Dispatch
    \/ \E i \in DOMAIN fut : StartTask(i)
    \/ \E i \in DOMAIN fut : AcquireLock(i)
    \/ \E i \in DOMAIN fut : LoadModel(i)
    \/ \E i \in DOMAIN fut : Recognize(i)
    \/ \E i \in DOMAIN fut : Cleanup(i)
    \/ \E i \in DOMAIN fut : Collect(i)
    \/ PoolExit
    \/ SingleLoad
    \/ SingleRecognize
    \/ Finish
    \/ Except
    \/ Finally

Spec == Init /\ [][Next]_vars

\* the steps that the thread running the job takes inside transcribe_audio
TranscribeAudioStep ==
    \/ EnterSingleThread
    \/ OpenWave
    \/ SplitStep
    \/ SplitOn
    \/ SplitReturn
    \/ Dispatch
    \/ \E i \in DOMAIN fut : Collect(i)
    \/ PoolExit
    \/ SingleLoad
    \/ SingleRecognize

\* the steps of the pool thread that runs the task of chunk i
WorkerStep(i) ==
    /\ i \in DOMAIN fut
    /\ \/ StartTask(i)
       \/ AcquireLock(i)
       \/ LoadModel(i)
       \/ Recognize(i)
       \/ Cleanup(i)

\* Fair scheduling while transcribe_audio runs: a thread that can take a step
\* is not held back for ever.  Every model load and every recognition is one
\* step, so each of them ends.
FairSpec ==
    /\ Spec
    /\ WF_vars(TranscribeAudioStep)
    /\ \A i \in 1..(MaxChunks + 1) : WF_vars(WorkerStep(i))


(***************************************************************************)
(* The segmenter on its own: a token stream is drawn and one of the two    *)
(* variants of simple_speaker_segmentation is applied to it.               *)
(***************************************************************************)
MaxWords == 3    \* longest drawn token stream

\* start times and lengths of the drawn words, ticks: the pauses they leave
\* lie on both sides of, and on, the thresholds 15 and 20
SegStarts  == {0, 15, 16, 20, 21}
SegLengths == {0, 1}

SegWordTimes == {[start |-> s, end |-> s + l] : s \in SegStarts, l \in SegLengths}

\* token streams of length n
SegStreams(n) ==
    {[k \in 1..n |-> [word |-> <<"w", Digit(k)>>, start |-> t[k].start, end |-> t[k].end]] :
        t \in [1..n -> SegWordTimes]}

\* The stream as result records: the first two words in one record, a record
\* without 'result', the remaining words in a last record.
RecordsOf(ws) ==
    IF Len(ws) <= 2
    THEN << [text |-> ""], [result |-> ws, text |-> "w"] >>
    ELSE << [result |-> SubSeq(ws, 1, 2), text |-> "w"], [text |-> ""],
            [result |-> SubSeq(ws, 3, Len(ws)), text |-> "w"] >>

\* no job is running
JobIdle ==
    /\ total_duration = 0
    /\ chunk_duration = Seconds(1)
    /\ use_multithreading = FALSE
    /\ max_workers = 1
    /\ num_speakers = 1
    /\ model_available = TRUE
    /\ pc = "idle"
    /\ chunk_start = 0
    /\ chunks = <<>>
    /\ split_overrun = FALSE
    /\ all_results = <<>>
    /\ ret = NoRet
    /\ caught = "none"
    /\ files = {}
    /\ wav_exists = FALSE
    /\ pools = 0
    /\ fut = <<>>
    /\ fres = <<>>
    /\ engine = [i \in 0..MaxChunks + 1 |-> "idle"]
    /\ rec = [i \in 0..MaxChunks + 1 |-> {}]
    /\ model = "None"
    /\ model_lock = 0
    /\ loads = 0

\* the words (hi, 0.0, 0.3), (there, 0.4, 0.7), (bob, 3.0, 3.3)
HiThereBob ==
    << [word |-> <<"h", "i">>, start |-> 0, end |-> 3],
       [word |-> <<"t", "h", "e", "r", "e">>, start |-> 4, end |-> 7],
       [word |-> <<"b", "o", "b">>, start |-> 30, end |-> 33] >>

SegSpecInit ==
    /\ JobIdle
    /\ AdvIdle
    /\ GrpIdle
    /\ SvcIdle
    /\ \/ \E n \in 0..MaxWords : \E ws \in SegStreams(n) : seg_in = RecordsOf(ws)
       \/ seg_in = RecordsOf(HiThereBob)
    /\ seg_n \in 1..MaxSpeakers + 1
    /\ seg_out = [variant |-> "none"]

\* simple_speaker_segmentation of src/transcriptor/transcriptor.py
SegmentThreaded ==
    /\ seg_out.variant = "none"
    /\ seg_out' = [variant |-> "threaded",
                   segments |-> simple_speaker_segmentation(seg_in, seg_n)]
    /\ UNCHANGED <<jobVars, svcVars, advVars, grpVars, seg_in, seg_n>>

\* simple_speaker_segmentation of src/transcriptor.py
SegmentSingle ==
    /\ seg_out.variant = "none"
    /\ seg_out' = [variant |-> "single",
                   segments |-> simple_speaker_segmentation_single(seg_in, seg_n)]
    /\ UNCHANGED <<jobVars, svcVars, advVars, grpVars, seg_in, seg_n>>

\* group_segments_by_speaker(segments) as transcribe_mp3_with_speakers calls it
\* on the segmenter's result, with the default time_threshold of the variant
GroupLabelled ==
    /\ seg_out.variant # "none"
    /\ "grouped" \notin DOMAIN seg_out
    /\ seg_out' = [grouped |->
                      IF seg_out.variant = "threaded"
                      THEN group_segments_by_speaker(seg_out.segments,
                                                     time_threshold_default)
                      ELSE group_segments_by_speaker_single(seg_out.segments,
                                                     time_threshold_default_single)]
                   @@ seg_out
    /\ UNCHANGED <<jobVars, svcVars, advVars, grpVars, seg_in, seg_n>>

\* a second call of the same variant on the same arguments
SegmentAgain ==
    /\ seg_out.variant # "none"
    /\ "again" \notin DOMAIN seg_out
    /\ LET threshold == IF seg_out.variant = "threaded" THEN speaker_change_threshold
                        ELSE pause_threshold_single
           left == SegLoop(SegInit, WordsOf(seg_in), seg_n, threshold)
       IN seg_out' = [again |-> SegLoop(SegStart(left), WordsOf(seg_in), seg_n,
                                        threshold).segments]
                     @@ seg_out
    /\ UNCHANGED <<jobVars, svcVars, advVars, grpVars, seg_in, seg_n>>

SegNext == SegmentThreaded \/ SegmentSingle \/ GroupLabelled \/ SegmentAgain

SegSpec == SegSpecInit /\ [][SegNext]_vars


(***************************************************************************)
(* advanced_speaker_segmentation on its own: a token stream and the turns  *)
(* of a diarization are drawn; loading the pipeline, running it and        *)
(* iterating its turns may each fail.                                      *)
(***************************************************************************)
MaxAdvWords == 2    \* longest token stream handed to the diarization segmenter
MaxTurns == 2       \* most turns of a diarization

\* start times of the drawn words, ticks; a word lasts half a second
AdvStarts == {0, 10, 31}

AdvStreams(n) ==
    {[k \in 1..n |-> [word |-> <<"w", Digit(k)>>, start |-> t[k],
                      end |-> t[k] + Seconds(1) \div 2]] :
        t \in [1..n -> AdvStarts]}

\* the turns a diarization may hold: they meet at tick 10, so that a word
\* starting there lies at the end of one and at the start of the other
Turns ==
    {[start |-> iv[1], end |-> iv[2], speaker |-> sp] :
        iv \in {<<0, 10>>, <<10, 30>>}, sp \in {"SPEAKER_00", "SPEAKER_01"}}

\* self.is_advanced_segmentation after __init__, called with the argument
\* is_advanced_segmentation = requested
AdvancedFlag(requested) == FALSE

\* The labelling is entered by transcribe_mp3_with_speakers of
\* src/transcriptor.py, on an object constructed with either value of
\* is_advanced_segmentation, or advanced_speaker_segmentation is called
\* directly, the way line 270 calls it: with the WAV and the results.  In
\* both, num_speakers is the number of speakers the caller is configured
\* with; advanced_speaker_segmentation has no parameter that receives it.
AdvCalls ==
    {[entry |-> "job", is_advanced_segmentation |-> b, num_speakers |-> n] :
        b \in BOOLEAN, n \in {1, MaxSpeakers}}
    \cup {[entry |-> "direct", is_advanced_segmentation |-> FALSE, num_speakers |-> n] :
              n \in {1, MaxSpeakers, default_num_speakers}}

AdvSpecInit ==
    /\ JobIdle
    /\ SegIdle
    /\ GrpIdle
    /\ SvcIdle
    /\ \E n \in 0..MaxAdvWords : \E ws \in AdvStreams(n) : adv_in = RecordsOf(ws)
    /\ \E n \in 0..MaxTurns : adv_turns \in [1..n -> Turns]
    /\ speaker_pipeline \in {"None", "Pipeline"}
    /\ adv_call \in AdvCalls
    /\ is_advanced_segmentation = AdvancedFlag(adv_call.is_advanced_segmentation)
    /\ adv_pc = IF adv_call.entry = "job" THEN "select" ELSE "load"
    /\ adv_segments = <<>>
    /\ adv_err = "none"
    /\ adv_out = NoRet
    /\ adv_strategy = "none"

\* self._load_speaker_pipeline() and the test of self.speaker_pipeline
LoadSpeakerPipeline ==
    /\ adv_pc = "load"
    /\ \E ok \in BOOLEAN :
          LET loaded == IF speaker_pipeline = "None" /\ ~ok THEN "None" ELSE "Pipeline" IN
          /\ speaker_pipeline' = loaded
          /\ IF loaded = "None"
             THEN /\ adv_err' = "load"
                  /\ adv_out' = RetList(AdvFallback(adv_in, adv_segments))
                  /\ adv_strategy' = "pause"
                  /\ adv_pc' = "returned"
             ELSE /\ adv_pc' = "call"
                  /\ UNCHANGED <<adv_err, adv_out, adv_strategy>>
    /\ UNCHANGED <<jobVars, svcVars, segVars, grpVars, adv_in, adv_turns, adv_segments, adv_call,
                   is_advanced_segmentation>>

\* diarization = self.speaker_pipeline(audio_path)
CallPipeline ==
    /\ adv_pc = "call"
    /\ \E ok \in BOOLEAN :
          IF ok
          THEN adv_pc' = "label" /\ adv_err' = adv_err
          ELSE adv_pc' = "except" /\ adv_err' = "call"
    /\ UNCHANGED <<jobVars, svcVars, segVars, grpVars, adv_in, adv_turns, speaker_pipeline,
                   adv_segments, adv_out, adv_call, is_advanced_segmentation, adv_strategy>>

\* one iteration of the loop over the words; itertracks may raise
LabelWord ==
    /\ adv_pc = "label"
    /\ Len(adv_segments) < Len(WordsOf(adv_in))
    /\ \E ok \in BOOLEAN :
          IF ok
          THEN /\ adv_segments' = AdvWord(adv_segments,
                                          WordsOf(adv_in)[Len(adv_segments) + 1], adv_turns)
               /\ UNCHANGED <<adv_pc, adv_err>>
          ELSE /\ adv_pc' = "except"
               /\ adv_err' = "itertracks"
               /\ UNCHANGED adv_segments
    /\ UNCHANGED <<jobVars, svcVars, segVars, grpVars, adv_in, adv_turns, speaker_pipeline, adv_out,
                   adv_call, is_advanced_segmentation, adv_strategy>>

\* return segments
AdvReturn ==
    /\ adv_pc = "label"
    /\ Len(adv_segments) = Len(WordsOf(adv_in))
    /\ adv_out' = RetList(adv_segments)
    /\ adv_strategy' = "diarization"
    /\ adv_pc' = "returned"
    /\ UNCHANGED <<jobVars, svcVars, segVars, grpVars, adv_in, adv_turns, speaker_pipeline,
                   adv_segments, adv_err, adv_call, is_advanced_segmentation>>

\* except Exception: return self.simple_speaker_segmentation(transcription_results)
AdvExcept ==
    /\ adv_pc = "except"
    /\ adv_out' = RetList(AdvFallback(adv_in, adv_segments))
    /\ adv_strategy' = "pause"
    /\ adv_pc' = "returned"
    /\ UNCHANGED <<jobVars, svcVars, segVars, grpVars, adv_in, adv_turns, speaker_pipeline,
                   adv_segments, adv_err, adv_call, is_advanced_segmentation>>

\* transcribe_mp3_with_speakers of src/transcriptor.py: the choice between
\* advanced_speaker_segmentation and simple_speaker_segmentation
SelectStrategy ==
    /\ adv_pc = "select"
    /\ IF speaker_pipeline # "None" /\ is_advanced_segmentation
       THEN /\ adv_pc' = "load"
            /\ UNCHANGED <<adv_out, adv_strategy>>
       ELSE /\ adv_out' = RetList(simple_speaker_segmentation_single(adv_in,
                                      adv_call.num_speakers))
            /\ adv_strategy' = "pause"
            /\ adv_pc' = "returned"
    /\ UNCHANGED <<jobVars, svcVars, segVars, grpVars, adv_in, adv_turns, speaker_pipeline,
                   adv_segments, adv_err, adv_call, is_advanced_segmentation>>

AdvNext ==
    \/ SelectStrategy
    \/ LoadSpeakerPipeline
    \/ CallPipeline
    \/ LabelWord
    \/ AdvReturn
    \/ AdvExcept

AdvSpec == AdvSpecInit /\ [][AdvNext]_vars

\* Both ways of labelling: a token stream is handed either to the pause-based
\* segmenter or to the labelling of src/transcriptor.py.
LabelSpecInit == SegSpecInit \/ AdvSpecInit

LabelNext ==
    \/ adv_pc = "idle" /\ SegNext
    \/ AdvNext

LabelSpec == LabelSpecInit /\ [][LabelNext]_vars


(***************************************************************************)
(* The service of src/transcriptor/app.py: one global transcriptor serves  *)
(* the /transcribe requests one after the other.                           *)
(***************************************************************************)
MaxRequests == 3    \* most requests served
MaxCpus == 2        \* largest core count of the host

\* self.max_workers = max_workers or multiprocessing.cpu_count(), with the
\* max_workers = None of Transcriptor(is_advanced_segmentation=False)
InitialWorkers(cpu_count) == cpu_count

\* the max_workers a request may carry: None, or an integer
NoOverride == [given |-> FALSE]
Overrides == {NoOverride} \cup {[given |-> TRUE, value |-> n] : n \in 0..MaxWorkers}

\* if max_workers is not None: transcriptor.max_workers = max_workers
WorkersAfterOverride(workers, override) ==
    IF override.given THEN override.value ELSE workers

\* What transcribe_mp3_with_speakers may return: None; the utterances of audio
\* in which the engine found no word; the utterances of audio with two words.
ApiJobReturns ==
    {RetNone,
     RetList(JobValue(EngineRecords(0, Seconds(2), "silent"), default_num_speakers)),
     RetList(JobValue(EngineRecords(0, Seconds(2), "speech"), default_num_speakers))}

\* `not result`
Falsy(result) == result.kind = "None" \/ result.value = <<>>

\* the response of /transcribe to the value the job returned
ApiResponse(result, workers) ==
    IF Falsy(result)
    THEN [status |-> 500]
    ELSE [status |-> 200, segments |-> result.value, threads_count |-> workers]

ApiSpecInit ==
    /\ JobIdle
    /\ SegIdle
    /\ AdvIdle
    /\ GrpIdle
    /\ TrkIdle
    /\ api_cpu_count \in 1..MaxCpus
    /\ api_max_workers = InitialWorkers(api_cpu_count)
    /\ api_log = <<>>

\* POST /transcribe with an accepted file: the override, the job, the response
ApiTranscribe ==
    /\ Len(api_log) < MaxRequests
    /\ \E override \in Overrides, result \in ApiJobReturns :
          LET workers == WorkersAfterOverride(api_max_workers, override) IN
          /\ api_max_workers' = workers
          /\ api_log' = Append(api_log, [max_workers |-> override,
                                         ran_with |-> workers,
                                         result |-> result,
                                         response |-> ApiResponse(result, workers)])
    /\ UNCHANGED <<jobVars, segVars, advVars, grpVars, trkVars, api_cpu_count>>

ApiNext == ApiTranscribe

ApiSpec == ApiSpecInit /\ [][ApiNext]_vars


(***************************************************************************)
(* The job-tracking service of src/app.py, followed for one job id.  The   *)
(* handlers run on the event loop; process_transcription, a plain          *)
(* function handed to BackgroundTasks, runs on a thread of its own after   *)
(* the response of POST /transcribe, so that its steps interleave with the *)
(* steps of a handler.                                                     *)
(***************************************************************************)
MaxDeletes == 2    \* most DELETE requests that find the job

\* jobs[job_id] = {"status": "queued", ..., "result_file": None, "error": None};
\* the dict has no key json_file, so that job.get("json_file") is None
QueuedJob == [status |-> "queued", result_file |-> "None", json_file |-> "None"]

\* jobs[job_id] = {"status": "processing", ..., "result_file": None, ...}
ProcessingJob == [status |-> "processing", result_file |-> "None", json_file |-> "None"]

\* mutant of CompletedUpdate: the name of the JSON file is not recorded
CompletedUpdate_NoJson(job) ==
    [job EXCEPT !.status = "completed", !.result_file = "txt"]

\* jobs[job_id].update({"status": "completed", ..., "result_file": result_filename,
\*                      "json_file": json_filename})
CompletedUpdate(job) ==
    [job EXCEPT !.status = "completed", !.result_file = "txt", !.json_file = "json"]

\* jobs[job_id].update({"status": "error", ...})
ErrorUpdate(job) == [job EXCEPT !.status = "error"]

\* what transcribe_mp3_with_speakers of src/transcriptor.py returns for results
TrkJobValue(results, n) ==
    group_segments_by_speaker_single(simple_speaker_segmentation_single(results, n),
                                     time_threshold_default_single)

\* What the job may return to process_transcription: None; the utterances of
\* audio in which the engine found no word; the utterances of audio with two
\* words.
TrkJobReturns ==
    {RetNone,
     RetList(TrkJobValue(EngineRecords(0, Seconds(2), "silent"), default_num_speakers)),
     RetList(TrkJobValue(EngineRecords(0, Seconds(2), "speech"), default_num_speakers))}

TrkSpecInit ==
    /\ JobIdle
    /\ SegIdle
    /\ AdvIdle
    /\ GrpIdle
    /\ ApiIdle
    /\ TrkIdle

\* POST /transcribe: the upload is saved, the task is handed to
\* BackgroundTasks, the job is entered as queued
TrkPost ==
    /\ trk_pc = "idle"
    /\ trk_statuses = <<>>
    /\ trk_files' = trk_files \cup {"upload"}
    /\ trk_jobs' = QueuedJob
    /\ trk_statuses' = <<"queued">>
    /\ trk_pc' = "start"
    /\ UNCHANGED <<jobVars, segVars, advVars, grpVars, apiVars, trk_transcription, trk_raised,
                   del_pc, del_job, trk_deletes, trk_deleted, trk_served>>

\* process_transcription, line 61: jobs[job_id] = {...}, a new dict
TaskStart ==
    /\ trk_pc = "start"
    /\ trk_jobs' = ProcessingJob
    /\ trk_statuses' = Append(trk_statuses, "processing")
    /\ del_job' = IF del_job = "current" THEN "replaced" ELSE del_job
    /\ trk_pc' = "begin"
    /\ UNCHANGED <<jobVars, segVars, advVars, grpVars, apiVars, trk_files, trk_transcription,
                   trk_raised, del_pc, trk_deletes, trk_deleted, trk_served>>

\* lines 70-76: Transcriptor(...) may raise; jobs[job_id]["progress"] = ...
\* raises KeyError when the job is not in the map
TaskBegin ==
    /\ trk_pc = "begin"
    /\ \E ok \in BOOLEAN :
          trk_pc' = IF ok /\ trk_jobs # NoJob THEN "transcribe" ELSE "except"
    /\ UNCHANGED <<jobVars, segVars, advVars, grpVars, apiVars, trk_jobs, trk_files,
                   trk_transcription, trk_raised, del_pc, del_job, trk_deletes, trk_deleted,
                   trk_statuses, trk_served>>

\* lines 77-81: the job, and the test of what it returned
TaskTranscribe ==
    /\ trk_pc = "transcribe"
    /\ \E result \in TrkJobReturns :
          /\ trk_transcription' = result
          /\ trk_pc' = IF Falsy(result) THEN "else" ELSE "save_text"
    /\ UNCHANGED <<jobVars, segVars, advVars, grpVars, apiVars, trk_jobs, trk_files, trk_raised,
                   del_pc, del_job, trk_deletes, trk_deleted, trk_statuses, trk_served>>

\* lines 82-89: jobs[job_id]["progress"] = ..., then save_results writes the
\* text file, which may raise
TaskSaveText ==
    /\ trk_pc = "save_text"
    /\ \E ok \in BOOLEAN :
          IF ok /\ trk_jobs # NoJob
          THEN trk_files' = trk_files \cup {"txt"} /\ trk_pc' = "save_json"
          ELSE trk_files' = trk_files /\ trk_pc' = "except"
    /\ UNCHANGED <<jobVars, segVars, advVars, grpVars, apiVars, trk_jobs, trk_transcription,
                   trk_raised, del_pc, del_job, trk_deletes, trk_deleted, trk_statuses,
                   trk_served>>

\* lines 92-106: the JSON file is written, which may raise
TaskSaveJson ==
    /\ trk_pc = "save_json"
    /\ \E ok \in BOOLEAN :
          IF ok
          THEN trk_files' = trk_files \cup {"json"} /\ trk_pc' = "complete"
          ELSE trk_files' = trk_files /\ trk_pc' = "except"
    /\ UNCHANGED <<jobVars, segVars, advVars, grpVars, apiVars, trk_jobs, trk_transcription,
                   trk_raised, del_pc, del_job, trk_deletes, trk_deleted, trk_statuses,
                   trk_served>>

\* lines 109-115: jobs[job_id].update(...), KeyError when the job is not in the map
TaskComplete ==
    /\ trk_pc = "complete"
    /\ IF trk_jobs = NoJob
       THEN /\ trk_pc' = "except"
            /\ UNCHANGED <<trk_jobs, trk_statuses>>
       ELSE /\ trk_jobs' = CompletedUpdate(trk_jobs)
            /\ trk_statuses' = Append(trk_statuses, "completed")
            /\ trk_pc' = "finally"
    /\ UNCHANGED <<jobVars, segVars, advVars, grpVars, apiVars, trk_files, trk_transcription,
                   trk_raised, del_pc, del_job, trk_deletes, trk_deleted, trk_served>>

\* lines 117-123: the else branch, KeyError when the job is not in the map
TaskElse ==
    /\ trk_pc = "else"
    /\ IF trk_jobs = NoJob
       THEN /\ trk_pc' = "except"
            /\ UNCHANGED <<trk_jobs, trk_statuses>>
       ELSE /\ trk_jobs' = ErrorUpdate(trk_jobs)
            /\ trk_statuses' = Append(trk_statuses, "error")
            /\ trk_pc' = "finally"
    /\ UNCHANGED <<jobVars, segVars, advVars, grpVars, apiVars, trk_files, trk_transcription,
                   trk_raised, del_pc, del_job, trk_deletes, trk_deleted, trk_served>>

\* lines 125-131: the except clause; its jobs[job_id].update(...) raises
\* KeyError when the job is not in the map, and nothing catches that
TaskExcept ==
    /\ trk_pc = "except"
    /\ IF trk_jobs = NoJob
       THEN /\ trk_raised' = TRUE
            /\ UNCHANGED <<trk_jobs, trk_statuses>>
       ELSE /\ trk_jobs' = ErrorUpdate(trk_jobs)
            /\ trk_statuses' = Append(trk_statuses, "error")
            /\ trk_raised' = trk_raised
    /\ trk_pc' = "finally"
    /\ UNCHANGED <<jobVars, segVars, advVars, grpVars, apiVars, trk_files, trk_transcription,
                   del_pc, del_job, trk_deletes, trk_deleted, trk_served>>

\* lines 132-135: the finally block removes the upload; the task ends, by a
\* return or by the exception that is propagating
TaskFinally ==
    /\ trk_pc = "finally"
    /\ trk_files' = trk_files \ {"upload"}
    /\ trk_pc' = IF trk_raised THEN "crashed" ELSE "done"
    /\ UNCHANGED <<jobVars, segVars, advVars, grpVars, apiVars, trk_jobs, trk_transcription,
                   trk_raised, del_pc, del_job, trk_deletes, trk_deleted, trk_statuses,
                   trk_served>>

\* the dict that the local variable job of delete_job refers to: the dict of
\* the map, or the queued dict that line 61 has replaced in the map since
HeldJob == IF del_job = "replaced" THEN QueuedJob ELSE trk_jobs

\* delete_job, lines 261-265: the job is found, job = jobs[job_id]
DeleteBegin ==
    /\ del_pc = "idle"
    /\ trk_deletes < MaxDeletes
    /\ trk_jobs # NoJob
    /\ del_pc' = "result_file"
    /\ del_job' = "current"
    /\ trk_deletes' = trk_deletes + 1
    /\ UNCHANGED <<jobVars, segVars, advVars, grpVars, apiVars, trk_jobs, trk_files, trk_pc,
                   trk_transcription, trk_raised, trk_deleted, trk_statuses, trk_served>>

\* lines 266-269: the text result is removed if the job names one
DeleteResultFile ==
    /\ del_pc = "result_file"
    /\ trk_files' = IF HeldJob.result_file # "None" THEN trk_files \ {"txt"} ELSE trk_files
    /\ del_pc' = "json_file"
    /\ UNCHANGED <<jobVars, segVars, advVars, grpVars, apiVars, trk_jobs, trk_pc,
                   trk_transcription, trk_raised, del_job, trk_deletes, trk_deleted,
                   trk_statuses, trk_served>>

\* lines 271-274: the JSON result is removed if the job names one
DeleteJsonFile ==
    /\ del_pc = "json_file"
    /\ trk_files' = IF HeldJob.json_file # "None" THEN trk_files \ {"json"} ELSE trk_files
    /\ del_pc' = "del"
    /\ UNCHANGED <<jobVars, segVars, advVars, grpVars, apiVars, trk_jobs, trk_pc,
                   trk_transcription, trk_raised, del_job, trk_deletes, trk_deleted,
                   trk_statuses, trk_served>>

\* line 277: del jobs[job_id]
DeleteRemove ==
    /\ del_pc = "del"
    /\ trk_jobs' = NoJob
    /\ trk_deleted' = TRUE
    /\ del_pc' = "idle"
    /\ del_job' = "none"
    /\ UNCHANGED <<jobVars, segVars, advVars, grpVars, apiVars, trk_files, trk_pc,
                   trk_transcription, trk_raised, trk_deletes, trk_statuses, trk_served>>

\* get_transcription_result / get_transcription_json answer with the file: the
\* job is in the map, its status is completed, it names the file, the file exists
Serves(job, name, file) ==
    /\ job # NoJob
    /\ job.status = "completed"
    /\ name # "None"
    /\ file \in trk_files

\* GET /jobs/{job_id}/result answers with the text file.  (delete_job does not
\* await: no other handler runs between its steps.)
GetResult ==
    /\ del_pc = "idle"
    /\ Serves(trk_jobs, trk_jobs.result_file, "txt")
    /\ trk_served' = trk_served \cup {[endpoint |-> "result", status |-> trk_jobs.status]}
    /\ UNCHANGED <<jobVars, segVars, advVars, grpVars, apiVars, trk_jobs, trk_files, trk_pc,
                   trk_transcription, trk_raised, del_pc, del_job, trk_deletes, trk_deleted,
                   trk_statuses>>

\* GET /jobs/{job_id}/result/json answers with the JSON file
GetJson ==
    /\ del_pc = "idle"
    /\ Serves(trk_jobs, trk_jobs.json_file, "json")
    /\ trk_served' = trk_served \cup {[endpoint |-> "json", status |-> trk_jobs.status]}
    /\ UNCHANGED <<jobVars, segVars, advVars, grpVars, apiVars, trk_jobs, trk_files, trk_pc,
                   trk_transcription, trk_raised, del_pc, del_job, trk_deletes, trk_deleted,
                   trk_statuses>>

TrkNext ==
    \/ TrkPost
    \/ TaskStart
    \/ TaskBegin
    \/ TaskTranscribe
    \/ TaskSaveText
    \/ TaskSaveJson
    \/ TaskComplete
    \/ TaskElse
    \/ TaskExcept
    \/ TaskFinally
    \/ DeleteBegin
    \/ DeleteResultFile
    \/ DeleteJsonFile
    \/ DeleteRemove
    \/ GetResult
    \/ GetJson

TrkSpec == TrkSpecInit /\ [][TrkNext]_vars


(***************************************************************************)
(* The utterance grouper on its own: a list of labelled words is drawn and *)
(* one of the two variants of group_segments_by_speaker is applied to it   *)
(* with its default time_threshold.                                        *)
(***************************************************************************)
MaxSegs == 3    \* longest drawn list of labelled words

\* start and end of the drawn words, ticks: the gaps they leave lie on both
\* sides of, and on, the thresholds 20 and 30; the word <<0, 25>> is still
\* being spoken when the words starting at 20 and 21 begin
GrpWordTimes == {<<0, 0>>, <<0, 1>>, <<0, 25>>, <<20, 20>>, <<21, 21>>, <<30, 30>>, <<31, 31>>}

GrpSpeakers == {SpeakerLabel(0), SpeakerLabel(1)}

GrpLists(n) ==
    {[k \in 1..n |-> [start |-> t[k][1], end |-> t[k][2], text |-> <<"w", Digit(k)>>,
                      speaker |-> sp[k]]] :
        t \in [1..n -> GrpWordTimes], sp \in [1..n -> GrpSpeakers]}

GrpSpecInit ==
    /\ JobIdle
    /\ SegIdle
    /\ AdvIdle
    /\ SvcIdle
    /\ \E n \in 0..MaxSegs : grp_in \in GrpLists(n)
    /\ grp_out = [variant |-> "none"]

\* group_segments_by_speaker of src/transcriptor/transcriptor.py
GroupThreaded ==
    /\ grp_out.variant = "none"
    /\ grp_out' = [variant |-> "threaded",
                   grouped |-> group_segments_by_speaker(grp_in, time_threshold_default),
                   segments |-> SegmentsAfterGrouping(grp_in, time_threshold_default)]
    /\ UNCHANGED <<jobVars, svcVars, segVars, advVars, grp_in>>

\* group_segments_by_speaker of src/transcriptor.py
GroupSingle ==
    /\ grp_out.variant = "none"
    /\ grp_out' = [variant |-> "single",
                   grouped |-> group_segments_by_speaker_single(grp_in,
                                   time_threshold_default_single),
                   segments |-> SegmentsAfterGrouping(grp_in,
                                   time_threshold_default_single)]
    /\ UNCHANGED <<jobVars, svcVars, segVars, advVars, grp_in>>

GrpNext == GroupThreaded \/ GroupSingle

GrpSpec == GrpSpecInit /\ [][GrpNext]_vars


(***************************************************************************)
(* Properties.                                                             *)
(***************************************************************************)
\* the job has left transcribe_audio through the worker pool
PoolPathDone == pools = 1 /\ pc \in {"segment", "finally", "returned"}

\* split_audio_into_chunks has returned its list
Chunked == pc = "dispatch"

RECURSIVE InIndexOrder(_)
\* the per-chunk results of chunks 1..n, concatenated by ascending chunk index
InIndexOrder(n) == IF n = 0 THEN <<>> ELSE InIndexOrder(n - 1) \o fres[n]

\* C1: with two or more chunks on the multithreaded path, for every completion
\* order of the futures the returned stream is the concatenation of the
\* per-chunk results in ascending chunk index.
C1_OutputInChunkIndexOrder ==
    (PoolPathDone /\ Len(chunks) >= 2) => all_results = InIndexOrder(Len(chunks))

C3_OneChunkWhenShort_Original ==
    (Chunked /\ chunk_duration > 0 /\ total_duration <= chunk_duration)
        => Len(chunks) = 1

\* C3 amended: whenever 0 < T <= chunkDuration the chunker produces exactly
\* one chunk; for T = 0 it produces no chunk.
C3_OneChunkWhenShort ==
    Chunked =>
        /\ (0 < total_duration /\ total_duration <= chunk_duration) => Len(chunks) = 1
        /\ total_duration = 0 => Len(chunks) = 0

\* C3 witness: an audio exactly as long as the chunk duration gave one chunk
C3_Witness ==
    /\ Chunked
    /\ total_duration > 0
    /\ total_duration = chunk_duration
    /\ Len(chunks) = 1

\* the chunker returned exactly one chunk
OneChunk == pc \notin {"convert", "transcribe_audio", "split"} /\ Len(chunks) = 1

\* C4: when the chunk count is 1 or concurrency is disabled, transcribe_audio
\* never constructs a worker pool and submits no task; the transcription that
\* the job returns was made synchronously by the thread of the job.
C4_NoPoolWhenShortOrDisabled ==
    (SingleThreaded \/ OneChunk) =>
        /\ pools = 0
        /\ DOMAIN fut = {}
        /\ ret.kind = "list" => engine[0] \in EngineOutcomes \ {"raise"}

\* C4 witness: a multithreaded job on a one-chunk audio returned a transcript
\* without a pool
C4_Witness ==
    /\ pc = "returned"
    /\ use_multithreading /\ max_workers >= 2
    /\ Len(chunks) = 1
    /\ ret.kind = "list"
    /\ pools = 0


\* the words the engine returned for chunk i, with their chunk-local times
LocalWords(i) ==
    IF engine[i] \in EngineOutcomes \ {"raise"}
    THEN WordsOf(EngineRecords(chunks[i].path, chunks[i].end - chunks[i].start, engine[i]))
    ELSE <<>>

\* the positions of the word with text t in a word stream
Occurrences(t, stream) == {p \in DOMAIN stream : stream[p].word = t}

\* C5: every token the engine returned for chunk i with local times (x, y) is in
\* the final stream exactly once, with start x + s_i and end y + s_i, s_i being
\* the start offset of chunk i; so its end is not before its start when y >= x.
C5_TokensShiftedOnce ==
    PoolPathDone =>
        \A i \in ChunkIds : \A k \in DOMAIN LocalWords(i) :
            LET w   == LocalWords(i)[k]
                out == WordsOf(all_results)
                occ == Occurrences(w.word, out)
            IN /\ Cardinality(occ) = 1
               /\ \A p \in occ :
                     /\ out[p].start = w.start + chunks[i].start
                     /\ out[p].end = w.end + chunks[i].start
                     /\ w.end >= w.start => out[p].end >= out[p].start

\* C5 witness: a job returned the two words of its second chunk, which starts
\* after 0
C5_Witness ==
    /\ PoolPathDone
    /\ Len(chunks) >= 2
    /\ chunks[2].start > 0
    /\ Len(LocalWords(2)) = 2
    /\ Cardinality(Occurrences(LocalWords(2)[2].word, WordsOf(all_results))) = 1

RECURSIVE SplitText(_)
\* the words of a space-joined text
SplitText(text) ==
    IF text = <<>> THEN <<>>
    ELSE LET spaces == {p \in DOMAIN text : text[p] = " "}
         IN IF spaces = {} THEN <<text>>
            ELSE LET p == CHOOSE q \in spaces : \A r \in spaces : q <= r
                 IN <<SubSeq(text, 1, p - 1)>> \o SplitText(SubSeq(text, p + 1, Len(text)))

RECURSIVE UtteranceWords(_)
\* the words of the texts of a list of utterances, in order
UtteranceWords(us) ==
    IF us = <<>> THEN <<>> ELSE SplitText(Head(us).text) \o UtteranceWords(Tail(us))

\* the texts of the words of the chunks whose transcription succeeded
SucceededWords == {LocalWords(i)[k].word : <<i, k>> \in
                      {x \in ChunkIds \X (1..2) : x[2] \in DOMAIN LocalWords(x[1])}}

Range(f) == {f[x] : x \in DOMAIN f}

\* C6: when the transcription of a chunk raises inside transcribe_chunk, that
\* chunk contributes no token, the job returns a list (no exception, no None),
\* and the utterances hold exactly the words of the other chunks, each once.
C6_FailedChunkIsSkipped ==
    (pc = "returned" /\ pools = 1 /\ \E i \in ChunkIds : engine[i] = "raise") =>
        /\ \A i \in ChunkIds : engine[i] = "raise" => fres[i] = <<>>
        /\ ret.kind = "list"
        /\ Range(UtteranceWords(ret.value)) = SucceededWords
        /\ Len(UtteranceWords(ret.value)) = Cardinality(SucceededWords)

\* C6 witness: a job of three chunks returned utterances although its second
\* chunk raised, the first and third having been recognised
C6_Witness ==
    /\ pc = "returned" /\ pools = 1
    /\ Len(chunks) = 3
    /\ engine[2] = "raise"
    /\ engine[1] = "speech" /\ engine[3] = "tail"
    /\ ret.kind = "list" /\ ret.value # <<>>

\* C7: when the model cannot be initialized the job ends in failure on every
\* path: it never returns a transcript.
C7_ModelFailureAbortsJob ==
    (pc = "returned" /\ \E i \in DOMAIN engine : engine[i] = "noload") => ret = RetNone

\* C8: the model is assigned at most once and exactly once before any caller
\* of _load_model goes on; at most one caller is inside the lock, the others
\* wait for it; no recognizer is built while self.model is None.
C8_ModelLoadedOnce ==
    /\ loads <= 1
    /\ model = "Loaded" <=> loads = 1
    /\ Cardinality({i \in DOMAIN fut : fut[i] = "locked"}) <= 1
    /\ \A i \in DOMAIN fut : fut[i] = "locked" <=> model_lock = i
    /\ \A i \in DOMAIN fut : fut[i] = "recognize" => (model = "Loaded" /\ loads = 1)
    /\ pc = "single_recognize" => (model = "Loaded" /\ loads = 1)

\* C8 witness: two workers are past _load_model at the same time, after one load
C8_Witness ==
    /\ \E i, j \in DOMAIN fut : i # j /\ fut[i] = "recognize" /\ fut[j] = "recognize"
    /\ loads = 1
    /\ model = "Loaded"

\* C9: the temporary file of a chunk is gone once the chunk's transcription has
\* completed, and no chunk file exists after the job has returned, whatever
\* path transcribe_audio took.
C9_ChunkFilesDeleted ==
    /\ \A i \in DOMAIN fut : fut[i] \in {"done", "collected"} => chunks[i].path \notin files
    /\ pc = "returned" => files = {}

\* lastEndTime before word k, and the number of words up to k that follow a
\* pause strictly longer than the threshold
SegPrevEnd(ws, k) == IF k = 1 THEN 0 ELSE ws[k - 1].end
SegPause(ws, k) == ws[k].start - SegPrevEnd(ws, k)
SegSwitches(ws, k, threshold) ==
    Cardinality({j \in 1..k : SegPause(ws, j) > threshold})

SegThreshold ==
    IF seg_out.variant = "threaded" THEN speaker_change_threshold ELSE pause_threshold_single

\* C10: pause-based segmentation starts at speaker 0 with lastEndTime 0 and
\* labels word k with the speaker reached after one step (mod numSpeakers) for
\* every word up to k whose start lies strictly more than the threshold after
\* the end of the word before it; a pause equal to the threshold is no step.
C10_PauseSegmentation ==
    seg_out.variant # "none" =>
        LET ws == WordsOf(seg_in) IN
        /\ Len(seg_out.segments) = Len(ws)
        /\ \A k \in DOMAIN ws :
              seg_out.segments[k].speaker =
                  SpeakerLabel(SegSwitches(ws, k, SegThreshold) % seg_n)

\* C10 witness: a stream was labelled in which one pause equals the threshold
\* (the speaker stays) and a later one exceeds it (the speaker changes)
C10_Witness ==
    /\ seg_out.variant # "none"
    /\ seg_n >= 2
    /\ LET ws == WordsOf(seg_in) IN
         \E j, k \in DOMAIN ws :
            /\ j < k
            /\ SegPause(ws, j) = SegThreshold
            /\ SegPause(ws, k) > SegThreshold
            /\ seg_out.segments[j].speaker = SpeakerLabel(0)
            /\ seg_out.segments[k].speaker = SpeakerLabel(1)

\* the turns (by position in iteration order) whose closed interval contains
\* the start of word w
TurnsAt(w) ==
    {j \in DOMAIN adv_turns :
        adv_turns[j].start <= w.start /\ w.start <= adv_turns[j].end}

AdvLabelled == adv_pc = "returned" /\ adv_strategy = "diarization"

\* C11: when diarization ran without error, every word comes back with its own
\* text, start and end and with the speaker of the first turn, in iteration
\* order, whose closed interval [start, end] contains the word's start, and
\* with SPEAKER_00 when no turn contains it.
C11_FirstContainingTurn ==
    AdvLabelled =>
        LET ws == WordsOf(adv_in) IN
        /\ adv_out.kind = "list"
        /\ Len(adv_out.value) = Len(ws)
        /\ \A k \in DOMAIN ws :
              LET seg == adv_out.value[k] IN
              /\ seg.text = ws[k].word /\ seg.start = ws[k].start /\ seg.end = ws[k].end
              /\ seg.speaker =
                    IF TurnsAt(ws[k]) = {} THEN "SPEAKER_00"
                    ELSE adv_turns[CHOOSE j \in TurnsAt(ws[k]) :
                                      \A i \in TurnsAt(ws[k]) : j <= i].speaker

\* C11 witness: diarization labelled a word that starts at the very end of the
\* first of two turns with different speakers containing it, and a word that
\* no turn contains
C11_Witness ==
    /\ AdvLabelled
    /\ LET ws == WordsOf(adv_in) IN
         \E j, k \in DOMAIN ws :
            /\ TurnsAt(ws[j]) = {1, 2}
            /\ ws[j].start = adv_turns[1].end
            /\ adv_turns[1].speaker = "SPEAKER_01"
            /\ adv_turns[2].speaker = "SPEAKER_00"
            /\ adv_out.value[j].speaker = "SPEAKER_01"
            /\ TurnsAt(ws[k]) = {}
            /\ adv_out.value[k].speaker = "SPEAKER_00"

\* C12: when the pipeline could not be loaded, or running it or iterating its
\* turns raised (also after some words had been labelled), the function still
\* returns a list, and this list is the pause-based labelling of the complete
\* token stream: no word keeps a label of the diarization lookup.
C12_FallbackIsWhole ==
    (adv_pc = "returned" /\ adv_err # "none") =>
        LET ws == WordsOf(adv_in) IN
        /\ adv_out.kind = "list"
        /\ Len(adv_out.value) = Len(ws)
        /\ \A k \in DOMAIN ws :
              /\ adv_out.value[k].text = ws[k].word
              /\ adv_out.value[k].speaker =
                    SpeakerLabel(SegSwitches(ws, k, pause_threshold_single)
                                    % default_num_speakers)

\* C12 witness: itertracks raised after the first word had been given the
\* label SPEAKER_01 by the lookup; the returned list labels it SPEAKER_00
C12_Witness ==
    /\ adv_pc = "returned"
    /\ adv_err = "itertracks"
    /\ Len(adv_segments) = 1
    /\ adv_segments[1].speaker = "SPEAKER_01"
    /\ Len(adv_out.value) = 2
    /\ adv_out.value[1].speaker = "SPEAKER_00"
    /\ adv_out.value[2].speaker = "SPEAKER_01"

GrpThreshold ==
    IF grp_out.variant = "threaded" THEN time_threshold_default
    ELSE time_threshold_default_single

\* word k continues the utterance of word k - 1: same speaker, and it starts
\* less than the threshold after the end of word k - 1
GrpContinues(k) ==
    /\ k > 1
    /\ grp_in[k].speaker = grp_in[k - 1].speaker
    /\ grp_in[k].start - grp_in[k - 1].end < GrpThreshold

\* the words that open an utterance, and the first and last word of the j-th
GrpOpeners == {k \in DOMAIN grp_in : ~GrpContinues(k)}
GrpFirst(j) == CHOOSE b \in GrpOpeners : Cardinality({x \in GrpOpeners : x <= b}) = j
GrpLast(j) == IF j = Cardinality(GrpOpeners) THEN Len(grp_in) ELSE GrpFirst(j + 1) - 1

\* C13: the grouper merges a word into the open utterance exactly when it has
\* the speaker of the open utterance and starts strictly less than the
\* threshold after its end; any other word closes the open utterance and
\* opens a new one, and the utterance open at the end of the input is emitted:
\* the output is one utterance per opening word, made of the words up to the
\* next opening word.
C13_MergeRule ==
    grp_out.variant # "none" =>
        LET out == grp_out.grouped IN
        /\ Len(out) = Cardinality(GrpOpeners)
        /\ \A j \in DOMAIN out :
              /\ out[j].speaker = grp_in[GrpFirst(j)].speaker
              /\ out[j].start = grp_in[GrpFirst(j)].start
              /\ out[j].end = grp_in[GrpLast(j)].end
              /\ SplitText(out[j].text) =
                    [i \in 1..(GrpLast(j) - GrpFirst(j) + 1) |->
                        grp_in[GrpFirst(j) + i - 1].text]

\* C13 witness: three words of one speaker were grouped; the second starts
\* exactly the threshold after the end of the first and opens a second
\* utterance, the third starts less than the threshold after the second and
\* is merged into it; this second utterance is emitted at the end of the input
C13_Witness ==
    /\ grp_out.variant # "none"
    /\ Len(grp_in) = 3
    /\ grp_in[1].speaker = grp_in[2].speaker /\ grp_in[2].speaker = grp_in[3].speaker
    /\ grp_in[2].start - grp_in[1].end = GrpThreshold
    /\ grp_in[3].start - grp_in[2].end < GrpThreshold
    /\ Len(grp_out.grouped) = 2
    /\ grp_out.grouped[1].text = grp_in[1].text
    /\ grp_out.grouped[2].end = grp_in[3].end

\* C14: the output of the grouper partitions its input: the words of the
\* utterance texts, read in output order, are the input words in input order
\* (so every word is in exactly one utterance), no utterance is without words,
\* there are at most as many utterances as words, and none for an empty input.
C14_OutputPartitionsInput ==
    grp_out.variant # "none" =>
        LET out == grp_out.grouped IN
        /\ UtteranceWords(out) = [k \in DOMAIN grp_in |-> grp_in[k].text]
        /\ \A j \in DOMAIN out : SplitText(out[j].text) # <<>>
        /\ Len(out) <= Len(grp_in)
        /\ grp_in = <<>> => out = <<>>

\* C14 witness: three words were grouped into two utterances, the last word
\* alone in the last one
C14_Witness ==
    /\ grp_out.variant # "none"
    /\ Len(grp_in) = 3
    /\ Len(grp_out.grouped) = 2
    /\ SplitText(grp_out.grouped[1].text) = <<grp_in[1].text, grp_in[2].text>>
    /\ SplitText(grp_out.grouped[2].text) = <<grp_in[3].text>>

\* the input of the grouper is in chronological order
GrpChronological ==
    /\ \A k \in DOMAIN grp_in : grp_in[k].start <= grp_in[k].end
    /\ \A k \in 2..Len(grp_in) : grp_in[k - 1].start <= grp_in[k].start

\* no word starts before the word before it has ended
GrpWordsDisjoint == \A k \in 2..Len(grp_in) : grp_in[k - 1].end <= grp_in[k].start

GrpOrdered ==
    LET out == grp_out.grouped IN
    /\ \A j \in DOMAIN out : out[j].start <= out[j].end
    /\ \A j \in 2..Len(out) : out[j - 1].end <= out[j].start

\* C15 as stated: for words in chronological order (non-decreasing start, each
\* end >= start) the utterances are ordered and do not overlap: for
\* consecutive utterances u and v, u.start <= u.end <= v.start.
C15_UtterancesOrdered_Original ==
    (grp_out.variant # "none" /\ GrpChronological) => GrpOrdered

\* C15: for words in chronological order of which none starts before the word
\* before it has ended, the utterances are ordered and do not overlap: for
\* consecutive utterances u and v, u.start <= u.end <= v.start.
C15_UtterancesOrdered ==
    (grp_out.variant # "none" /\ GrpChronological /\ GrpWordsDisjoint) => GrpOrdered

\* C15 witness: chronological words that do not overlap were grouped into two
\* utterances, the first of them made of two words and lasting some time
C15_Witness ==
    /\ grp_out.variant # "none"
    /\ GrpChronological /\ GrpWordsDisjoint
    /\ Len(grp_in) = 3
    /\ Len(grp_out.grouped) = 2
    /\ grp_out.grouped[1].start < grp_out.grouped[1].end
    /\ grp_out.grouped[1].end = grp_in[2].end
    /\ grp_out.grouped[1].end < grp_out.grouped[2].start

\* C16: the utterance list returned by the job is ordered by global time,
\* whatever the order in which the chunk workers completed: the start times
\* are non-decreasing along the returned list.
C16_UtterancesByGlobalTime ==
    (pc = "returned" /\ ret.kind = "list") =>
        \A j \in 2..Len(ret.value) : ret.value[j - 1].start <= ret.value[j].start

RECURSIVE JoinWords(_)
\* the texts joined by single spaces
JoinWords(texts) ==
    IF Len(texts) = 1 THEN texts[1]
    ELSE texts[1] \o <<" ">> \o JoinWords(Tail(texts))

\* the number of words in the first j utterances
RECURSIVE WordsThrough(_, _)
WordsThrough(us, j) ==
    IF j = 0 THEN 0 ELSE WordsThrough(us, j - 1) + Len(SplitText(us[j].text))

SegGrouped == seg_out.variant # "none" /\ "grouped" \in DOMAIN seg_out

\* C17: with pause threshold 1.5, two speakers and merge threshold 2.0 the
\* words (hi, 0.0, 0.3), (there, 0.4, 0.7), (bob, 3.0, 3.3) get the labels
\* 0, 0, 1 and are grouped into exactly two utterances, speaker 0 "hi there"
\* from 0.0 to 0.7 and speaker 1 "bob" from 3.0 to 3.3; and for every stream
\* an utterance starts with its first word, ends with its last word and its
\* text is its words joined by single spaces in order.
C17_HiThereBob ==
    SegGrouped =>
        LET segs == seg_out.segments
            out  == seg_out.grouped
        IN
        /\ (seg_in = RecordsOf(HiThereBob) /\ seg_n = 2 /\ seg_out.variant = "single") =>
              /\ [k \in DOMAIN segs |-> segs[k].speaker]
                    = <<SpeakerLabel(0), SpeakerLabel(0), SpeakerLabel(1)>>
              /\ out = << [speaker |-> SpeakerLabel(0), start |-> 0, end |-> 7,
                           text |-> <<"h", "i", " ", "t", "h", "e", "r", "e">>],
                          [speaker |-> SpeakerLabel(1), start |-> 30, end |-> 33,
                           text |-> <<"b", "o", "b">>] >>
        /\ WordsThrough(out, Len(out)) = Len(segs)
        /\ \A j \in DOMAIN out :
              LET first == WordsThrough(out, j - 1) + 1
                  last  == WordsThrough(out, j)
              IN /\ first <= last
                 /\ out[j].start = segs[first].start
                 /\ out[j].end = segs[last].end
                 /\ out[j].text =
                       JoinWords([i \in 1..(last - first + 1) |-> segs[first + i - 1].text])

\* C17 witness: the single-threaded variant has segmented the three words for
\* two speakers and grouped them into two utterances
C17_Witness ==
    /\ SegGrouped
    /\ seg_in = RecordsOf(HiThereBob)
    /\ seg_n = 2
    /\ seg_out.variant = "single"
    /\ Len(seg_out.grouped) = 2
    /\ seg_out.grouped[1].end = 7

SegLabels(segments) == [k \in DOMAIN segments |-> segments[k].speaker]

SegTwice == seg_out.variant # "none" /\ "again" \in DOMAIN seg_out

FatalError ==
    \/ caught = "CouldntDecodeError"
    \/ \E i \in DOMAIN engine : engine[i] = "noload"

\* the only error was the failed transcription of chunks handed to the pool
RecoverableErrorOnly ==
    /\ ~FatalError
    /\ caught = "none"
    /\ \E i \in ChunkIds : engine[i] = "raise"

\* C18: a fatal error (undecodable audio, model unavailable) aborts the job
\* and reaches the caller of transcribe_mp3_with_speakers with its cause: the
\* job does not return a transcript, and what the caller gets carries the
\* cause; the failed transcription of a chunk is swallowed and the job
\* returns a transcript.
C18_FatalErrorsReachCaller ==
    pc = "returned" =>
        /\ FatalError => (ret.kind # "list" /\ "cause" \in DOMAIN ret)
        /\ RecoverableErrorOnly => ret.kind = "list"

\* C19: when the chunker cannot open the decoded audio, no chunk is made, no
\* worker pool is built, no chunk is handed to the recognizer, and the job
\* returns no transcript (it returns None).
C19_UnreadableAudioFailsJob ==
    caught = "wave.Error" =>
        /\ chunks = <<>> /\ files = {}
        /\ pools = 0 /\ fut = <<>>
        /\ \A i \in DOMAIN engine : engine[i] = "idle"
        /\ all_results = <<>>
        /\ ret.kind # "list"
        /\ pc = "returned" => ret = RetNone

\* C19 witness: a job with audio longer than one chunk whose WAV the chunker
\* could not open has returned
C19_Witness ==
    /\ caught = "wave.Error"
    /\ pc = "returned"
    /\ ret = RetNone
    /\ total_duration > chunk_duration /\ chunk_duration > 0

\* the labelled words are the input words: as many, in the same order, each
\* with the text, start and end of its word
LabelsEveryWord(segments, results) ==
    LET ws == WordsOf(results) IN
    /\ Len(segments) = Len(ws)
    /\ \A k \in DOMAIN ws :
          /\ segments[k].text = ws[k].word
          /\ segments[k].start = ws[k].start
          /\ segments[k].end = ws[k].end

\* C21: either segmentation strategy (the pause heuristic of both variants, the
\* diarization lookup and its fallback) returns exactly one labelled word per
\* input word, in the input order, with unchanged text, start and end.
C21_LabellingKeepsWords ==
    /\ adv_pc = "returned" => LabelsEveryWord(adv_out.value, adv_in)
    /\ seg_out.variant # "none" => LabelsEveryWord(seg_out.segments, seg_in)

\* C21 witness: the diarization lookup has labelled two words that were handed
\* over out of chronological order, with different speakers
C21_Witness ==
    /\ AdvLabelled
    /\ Len(adv_out.value) = 2
    /\ adv_out.value[1].start > adv_out.value[2].start
    /\ adv_out.value[1].speaker # adv_out.value[2].speaker

\* C22: the strategy is chosen when the job is configured: a job on an object
\* constructed with is_advanced_segmentation = True labels its words through
\* the diarization strategy when nothing of the diarization engine fails, and
\* a job on an object constructed without it uses the pause heuristic.
C22_StrategySelectable ==
    (adv_pc = "returned" /\ adv_call.entry = "job") =>
        /\ (adv_call.is_advanced_segmentation /\ adv_err = "none")
                => adv_strategy = "diarization"
        /\ ~adv_call.is_advanced_segmentation => adv_strategy = "pause"

ChunkLen(i) == chunks[i].end - chunks[i].start

C24_AtMostMaxWorkers ==
    /\ pools <= 1
    /\ pools = 1 =>
          /\ Cardinality(Running) <= max_workers
          /\ DOMAIN fut = ChunkIds
          /\ DOMAIN fres = ChunkIds
    /\ pools = 0 => fut = <<>>

\* C24 witness: two of three chunks are being transcribed by the two threads
\* of the pool, the third is waiting in the queue
C24_Witness ==
    /\ pools = 1
    /\ max_workers = 2
    /\ Len(chunks) = 3
    /\ Cardinality(Running) = 2
    /\ fut[3] = "pending"

\* C25: transcribe_audio returns from the pool only after every submitted
\* task has ended, with a result or with an error: when it has returned no
\* chunk is waiting or being transcribed, and every chunk's result (empty
\* for a chunk whose transcription failed) has been collected.
C25_ReturnsAfterAllTasks ==
    PoolPathDone =>
        /\ Running = {}
        /\ \A i \in ChunkIds :
              /\ fut[i] = "collected"
              /\ engine[i] # "idle"
              /\ engine[i] \in {"raise", "noload"} => fres[i] = <<>>

\* C25 witness: transcribe_audio has returned from a pool of two threads that
\* had three chunks, one of which failed
C25_Witness ==
    /\ PoolPathDone
    /\ pc = "segment"
    /\ max_workers = 2
    /\ Len(chunks) = 3
    /\ engine[1] = "raise"
    /\ engine[3] = "head"

\* C26: every transcription creates its own recognizer from the shared model
\* and no other uses it: no recognizer object is used by the transcriptions of
\* two chunks; the model, the one object they share, is assigned once, before
\* the first recognizer is created, and not again.
C26_OwnRecognizerPerCall ==
    /\ \A i, j \in DOMAIN rec : i # j => rec[i] \cap rec[j] = {}
    /\ \A i \in DOMAIN rec : rec[i] # {} => (model = "Loaded" /\ loads = 1)
    /\ \A i \in DOMAIN fut : fut[i] = "recognize" => (model = "Loaded" /\ loads = 1)

\* C26 witness: two workers have each transcribed a chunk with a recognizer
\* while a third chunk is about to be transcribed
C26_Witness ==
    /\ pools = 1
    /\ Len(chunks) = 3
    /\ rec[1] # {} /\ rec[2] # {}
    /\ rec[1] # rec[2]
    /\ fut[3] = "recognize"

\* C27: the temporary file of a chunk is opened and deleted by the worker of
\* that chunk alone, and never opened after its deletion: in every
\* interleaving the file exists until its own worker has read it, whatever
\* the other workers have done, and is gone once its own worker has ended.
C27_ChunkFileOwnedByWorker ==
    \A i \in DOMAIN fut :
        /\ fut[i] \in {"pending", "load", "locked", "recognize"} => chunks[i].path \in files
        /\ fut[i] \in {"done", "collected"} => chunks[i].path \notin files
        /\ rec[i] # {} => engine[i] # "noload"

\* C27 witness: the worker of the first chunk has deleted its file while the
\* worker of the second chunk is about to open its own, which exists
C27_Witness ==
    /\ pools = 1
    /\ Len(chunks) >= 2
    /\ fut[1] = "done"
    /\ chunks[1].path \notin files
    /\ fut[2] = "recognize"
    /\ chunks[2].path \in files

\* the records the engine produced for chunk i, in the engine's order (the
\* FinalResult() record last), in global time; none for a failed chunk
EngineRecordsOf(i) ==
    IF engine[i] \in {"raise", "noload", "idle"} THEN <<>>
    ELSE [k \in DOMAIN EngineRecords(i, ChunkLen(i), engine[i]) |->
            LET r == EngineRecords(i, ChunkLen(i), engine[i])[k] IN
            IF HasResult(r)
            THEN [r EXCEPT !.result = [q \in DOMAIN r.result |->
                        [word |-> r.result[q].word,
                         start |-> r.result[q].start + chunks[i].start,
                         end |-> r.result[q].end + chunks[i].start]]]
            ELSE r]

\* the orders in which the chunks can be arranged
ChunkOrders == {o \in [ChunkIds -> ChunkIds] : \A i, j \in ChunkIds : o[i] = o[j] => i = j}

RECURSIVE RecordsInOrder(_, _)
RecordsInOrder(o, n) ==
    IF n = 0 THEN <<>> ELSE RecordsInOrder(o, n - 1) \o EngineRecordsOf(o[n])

\* C28: the token stream of the multithreaded path is made of the records of
\* the successfully transcribed chunks, every record once, the records of one
\* chunk next to each other and in the order the engine produced them (its
\* FinalResult() record last): it is the chunks' record lists put one after
\* the other in some order of the chunks.
C28_ChunkRecordsKeptWhole ==
    PoolPathDone =>
        \E o \in ChunkOrders : all_results = RecordsInOrder(o, Len(chunks))

\* C28 witness: of three chunks the second was collected first, with the two
\* records the engine produced for it, and the first chunk failed
C28_Witness ==
    /\ PoolPathDone
    /\ Len(chunks) = 3
    /\ engine[1] = "raise"
    /\ engine[2] = "speech"
    /\ engine[3] = "tail"
    /\ Len(all_results) = 3
    /\ all_results[3].result[1].word = <<ChunkLetter(2), Digit(2)>>

\* C29: the grouper builds its utterances from copies: after it has returned,
\* every labelled word of the list it was given still has its text, start,
\* end and speaker, also a word that opened an utterance which then absorbed
\* further words.
C29_InputNotMutated ==
    grp_out.variant # "none" => grp_out.segments = grp_in

\* C29 witness: the first word opened an utterance that absorbed the second
\* word, which ends later; the first word of the list is still only itself
C29_Witness ==
    /\ grp_out.variant # "none"
    /\ Len(grp_in) >= 2
    /\ SplitText(grp_out.grouped[1].text) = <<grp_in[1].text, grp_in[2].text>>
    /\ grp_out.grouped[1].end > grp_in[1].end
    /\ grp_out.segments[1].text = grp_in[1].text
    /\ grp_out.segments[1].end = grp_in[1].end

\* the position, in the output of the grouper, of the utterance whose text
\* holds input word k
GrpUtteranceOf(k) ==
    CHOOSE j \in DOMAIN grp_out.grouped :
        WordsThrough(grp_out.grouped, j - 1) < k /\ k <= WordsThrough(grp_out.grouped, j)

GrpGap(k) == grp_in[k].start - grp_in[k - 1].end

GrpSameSpeaker(k) == grp_in[k].speaker = grp_in[k - 1].speaker

\* C30 as stated: every utterance is a run of consecutive same-speaker words
\* whose gaps do not exceed the threshold, and two consecutive same-speaker
\* words with a gap less than or equal to the threshold (equality included)
\* are in the same utterance.
C30_RunsWithinThreshold_Original ==
    grp_out.variant # "none" =>
        \A k \in 2..Len(grp_in) :
            (GrpUtteranceOf(k) = GrpUtteranceOf(k - 1))
                <=> (GrpSameSpeaker(k) /\ GrpGap(k) <= GrpThreshold)

\* C30: every utterance is a run of consecutive same-speaker words whose gaps
\* are strictly less than the threshold: two consecutive same-speaker words
\* are in the same utterance exactly when the gap between them is less than
\* the threshold; a gap equal to the threshold separates them.
C30_RunsWithinThreshold ==
    grp_out.variant # "none" =>
        \A k \in 2..Len(grp_in) :
            (GrpUtteranceOf(k) = GrpUtteranceOf(k - 1))
                <=> (GrpSameSpeaker(k) /\ GrpGap(k) < GrpThreshold)

\* C30 witness: of three words of one speaker the second follows the first
\* after exactly the threshold and is in another utterance, the third follows
\* the second after less and is in the utterance of the second
C30_Witness ==
    /\ grp_out.variant # "none"
    /\ Len(grp_in) = 3
    /\ GrpSameSpeaker(2) /\ GrpSameSpeaker(3)
    /\ GrpGap(2) = GrpThreshold
    /\ GrpGap(3) < GrpThreshold
    /\ GrpUtteranceOf(1) = 1
    /\ GrpUtteranceOf(2) = 2
    /\ GrpUtteranceOf(3) = 2

(***************************************************************************)
(* C31  labels of the pause-based segmentation                             *)
(***************************************************************************)
\* the labels SPEAKER_00 .. SPEAKER_(n-1)
SpeakerLabels(n) == {SpeakerLabel(i) : i \in 0..(n - 1)}

\* C31: with num_speakers >= 1 every label the pause-based segmentation
\* produces is SPEAKER_nn for an index nn in 0..num_speakers-1, and with
\* num_speakers = 1 every word has the one label SPEAKER_00 whatever the pauses.
C31_LabelsWithinSpeakers ==
    (seg_out.variant # "none" /\ seg_n >= 1) =>
        /\ \A k \in DOMAIN seg_out.segments :
              seg_out.segments[k].speaker \in SpeakerLabels(seg_n)
        /\ seg_n = 1 =>
              \A k \in DOMAIN seg_out.segments :
                  seg_out.segments[k].speaker = SpeakerLabel(0)

\* C31 witness: one speaker, two words, a pause above the threshold before
\* the second word, and both words labelled SPEAKER_00
C31_Witness ==
    /\ seg_out.variant = "threaded"
    /\ seg_n = 1
    /\ Len(seg_out.segments) = 2
    /\ seg_out.segments[2].start - seg_out.segments[1].end > speaker_change_threshold
    /\ seg_out.segments[1].speaker = "SPEAKER_00"
    /\ seg_out.segments[2].speaker = "SPEAKER_00"

(***************************************************************************)
(* C32  termination of the multithreaded transcribe_audio                  *)
(***************************************************************************)
\* transcribe_audio has been left, by a return or by an exception
LeftTranscribeAudio == pc \in {"segment", "except", "finally", "returned"}

\* C32: under fair scheduling, every model load and every recognition ending,
\* a multithreaded transcribe_audio that is entered is left again.
C32_MultithreadedTerminates ==
    (pc = "transcribe_audio" /\ ~SingleThreaded) ~> LeftTranscribeAudio

\* The part of C32 about the pool: once the tasks are submitted every future
\* completes, the model lock ends up free and transcribe_audio returns.
C32_PoolPhaseTerminates ==
    (pc = "collect") ~> (pc = "segment" /\ model_lock = 0
                         /\ \A i \in DOMAIN fut : fut[i] = "collected")

(***************************************************************************)
(* C33  termination of the chunker                                         *)
(***************************************************************************)
\* C33: on every iteration of the loop of split_audio_into_chunks chunk_start
\* strictly increases, for every total duration and every chunk_duration the
\* endpoint passes through (zero and negative values among them).
C33_ChunkStartIncreases ==
    [][(pc = "split" /\ pc' = "split") => chunk_start' > chunk_start]_vars

(***************************************************************************)
(* C35  the temporary WAV of a job                                         *)
(***************************************************************************)
\* nothing of the transcription has been attempted
NoTranscriptionAttempted ==
    /\ chunks = <<>>
    /\ files = {}
    /\ pools = 0
    /\ loads = 0
    /\ \A i \in DOMAIN engine : engine[i] = "idle"
    /\ \A i \in DOMAIN rec : rec[i] = {}

\* C35: when transcribe_mp3_with_speakers has returned, on whichever path, the
\* temporary WAV of convert_mp3_to_wav does not exist; when the conversion
\* failed the job returned None and attempted no transcription.
C35_TemporaryWavDeleted ==
    pc = "returned" =>
        /\ ~wav_exists
        /\ caught = "CouldntDecodeError" =>
              (ret = RetNone /\ NoTranscriptionAttempted)

\* C35 witness: a job whose recognition raised has returned None and the
\* temporary WAV is gone
C35_Witness ==
    /\ pc = "returned"
    /\ caught = "RecognizerError"
    /\ engine[0] = "raise"
    /\ ret = RetNone
    /\ ~wav_exists

(***************************************************************************)
(* C36  the number of speakers of the fallback                             *)
(***************************************************************************)
\* C36: when the diarization-based segmentation fell back to the pause
\* heuristic, what it returns is the pause-based labelling of the same
\* results with the number of speakers configured by the caller.
C36_FallbackUsesJobSpeakers ==
    (adv_pc = "returned" /\ adv_err # "none") =>
        /\ adv_out.kind = "list"
        /\ adv_out.value =
              simple_speaker_segmentation_single(adv_in, adv_call.num_speakers)

(***************************************************************************)
(* C34  a job without utterances                                           *)
(***************************************************************************)
\* C34: a request whose job returned the empty list of utterances is answered
\* as a success (status 200) with the empty list, not as an error.
C34_EmptyResultIsSuccess ==
    \A k \in DOMAIN api_log :
        (api_log[k].result.kind = "list" /\ api_log[k].result.value = <<>>) =>
            /\ api_log[k].response.status = 200
            /\ api_log[k].response.segments = <<>>

(***************************************************************************)
(* C39  the max_workers of a request                                       *)
(***************************************************************************)
\* C39: a request that carries no max_workers runs with the worker count the
\* transcriptor was constructed with, the core count of the host, and reports
\* it as threads_count, whatever the requests before it carried.
C39_OverrideIsPerRequest ==
    \A k \in DOMAIN api_log :
        ~api_log[k].max_workers.given =>
            /\ api_log[k].ran_with = InitialWorkers(api_cpu_count)
            /\ api_log[k].response.status = 200 =>
                  api_log[k].response.threads_count = InitialWorkers(api_cpu_count)

(***************************************************************************)
(* C37  the life cycle of a tracked job                                    *)
(***************************************************************************)
\* C37: the status of a job only goes queued -> processing -> completed or
\* error and does not change after completed or error; a completed job names
\* its text file and its JSON file; a result endpoint answers with a file
\* only for a job whose status is completed.
C37_StatusLifecycle ==
    /\ trk_statuses \in {<<>>, <<"queued">>, <<"queued", "processing">>,
                          <<"queued", "processing", "completed">>,
                          <<"queued", "processing", "error">>}
    /\ trk_jobs.status = "completed" =>
          (trk_jobs.result_file # "None" /\ trk_jobs.json_file # "None")
    /\ \A s \in trk_served : s.status = "completed"

\* C37 witness: the job went queued, processing, completed, names both files,
\* and both result endpoints have answered with their file
C37_Witness ==
    /\ trk_statuses = <<"queued", "processing", "completed">>
    /\ trk_jobs = [status |-> "completed", result_file |-> "txt", json_file |-> "json"]
    /\ trk_served = {[endpoint |-> "result", status |-> "completed"],
                      [endpoint |-> "json", status |-> "completed"]}

(***************************************************************************)
(* C38  DELETE while the background task runs                              *)
(***************************************************************************)
TaskEnded == trk_pc \in {"done", "crashed"}

\* C38: however DELETE /jobs/{job_id} interleaves with process_transcription
\* of the job, the task ends without an unhandled exception, the upload is
\* removed, a deleted job is not in the map again, and no result file of a
\* deleted job is left.
C38_DeleteIsSafe ==
    /\ trk_pc # "crashed"
    /\ TaskEnded => "upload" \notin trk_files
    /\ (trk_deleted /\ del_pc = "idle") => trk_jobs = NoJob
    /\ (trk_deleted /\ del_pc = "idle" /\ TaskEnded) =>
          trk_files \cap {"txt", "json"} = {}

====
